---- MODULE Spec2Model ----
(***************************************************************************)
(* A state-machine model of the IPO finance scraper:                       *)
(*   - IPOSearchEngine  (src/ipo_search_engine.py): the fuzzy search over  *)
(*     the loaded company collection and its exact lookups;                *)
(*   - IPOIndexBuilder  (src/ipo_index_builder.py): the collection build   *)
(*     with its two de-duplication steps, save_index and load_index.       *)
(*                                                                         *)
(* Text is modelled as a sequence of code points, so that str.lower(),     *)
(* the `in` substring test, difflib's matching blocks and sorted() are     *)
(* computed and not assumed.  A similarity score is the exact rational     *)
(* <<numerator, denominator>> in lowest terms; the floats of the code are  *)
(* the correctly rounded values of these rationals, so they compare the    *)
(* same way.                                                               *)
(***************************************************************************)
EXTENDS Integers, Sequences, FiniteSets, TLC

VARIABLES
    companies,    \* IPOSearchEngine.companies
    bcompanies,   \* IPOIndexBuilder.companies
    index_file,   \* the file companies_index.json
    pages,        \* the listing pages served to the last build_index
    call,         \* the last call made, with its arguments
    prev,         \* the call made before it
    ret,          \* what the last call returned or raised
    soup,         \* IPODataExtractor.soup: the parsed document
    data,         \* IPODataExtractor.data: a reference into heap
    heap,         \* the dict objects the extractors have created
    held,         \* what each extract_all call handed to its caller
    tree,         \* XPathExtractor.tree: the parsed file
    xresults,     \* XPathExtractor.results
    site,         \* what the site answers to a GET of a company URL
    log,          \* the requests sent, extractions run and files written
    frame         \* the locals of the running IPOSearchAndExtract method

vars == <<companies, bcompanies, index_file, pages, call, prev, ret,
          soup, data, heap, held, tree, xresults, site, log, frame>>

\* the variables of IPODataExtractor and of its callers
extractor_vars == <<soup, data, heap, held>>

\* no IPODataExtractor exists
NoExtractor == soup = <<>> /\ data = 0 /\ heap = <<>> /\ held = <<>>

\* the variables of XPathExtractor and of IPOSearchAndExtract
tool_vars == <<tree, xresults, site, log, frame>>

\* no XPathExtractor exists and no IPOSearchAndExtract method runs
NoTools ==
    tree = <<>> /\ xresults = <<>> /\ site = <<>> /\ log = <<>> /\ frame = <<>>

(***************************************************************************)
(* Bounds of the model.                                                    *)
(***************************************************************************)
MaxCompanies == 2      \* companies in a loaded collection
MaxLimit == 2          \* largest `limit` passed to search
MaxLinks == 3          \* IPO links found over the three listing pages

(***************************************************************************)
(* Text.                                                                   *)
(***************************************************************************)
ch == [sp |-> 32, nl |-> 10, quote |-> 34, pct |-> 37, plus |-> 43,
       comma |-> 44, minus |-> 45, dot |-> 46, n0 |-> 48, n1 |-> 49, n2 |-> 50, n3 |-> 51, n4 |-> 52,
       n5 |-> 53, n6 |-> 54, n7 |-> 55, n8 |-> 56, n9 |-> 57, A |-> 65,
       B |-> 66, C |-> 67, D |-> 68, E |-> 69, F |-> 70, G |-> 71,
       H |-> 72, I |-> 73, J |-> 74, K |-> 75, L |-> 76, M |-> 77,
       N |-> 78, O |-> 79, P |-> 80, Q |-> 81, R |-> 82, S |-> 83,
       T |-> 84, U |-> 85, V |-> 86, W |-> 87, X |-> 88, Y |-> 89,
       Z |-> 90, lb |-> 91, rb |-> 93, us |-> 95, a |-> 97, b |-> 98, c |-> 99,
       d |-> 100, e |-> 101, f |-> 102, g |-> 103, h |-> 104, i |-> 105,
       j |-> 106, k |-> 107, l |-> 108, m |-> 109, n |-> 110, o |-> 111,
       p |-> 112, q |-> 113, r |-> 114, s |-> 115, t |-> 116, u |-> 117,
       v |-> 118, w |-> 119, x |-> 120, y |-> 121, z |-> 122, c2 |-> 199,
       q3 |-> 232, q2 |-> 243, c3 |-> 960, q1 |-> 8218]

\* str.lower() on one ASCII character
LowerChar(c) == IF c >= ch.A /\ c <= ch.A + 25 THEN c + (ch.a - ch.A) ELSE c

\* str.lower()
lower(s) == [k \in 1..Len(s) |-> LowerChar(s[k])]

\* Python's `sub in s` for strings: sub occurs as a contiguous slice of s
Contains(sub, s) ==
    \E k \in 0..(Len(s) - Len(sub)) : SubSeq(s, k + 1, k + Len(sub)) = sub

\* Python's ordering of two strings: lexicographic by code point
RECURSIVE StrLess(_, _)
StrLess(s, t) ==
    IF t = <<>> THEN FALSE
    ELSE IF s = <<>> THEN TRUE
    ELSE IF Head(s) # Head(t) THEN Head(s) < Head(t)
    ELSE StrLess(Tail(s), Tail(t))

Min(x, y) == IF x <= y THEN x ELSE y
Max(x, y) == IF x >= y THEN x ELSE y

(***************************************************************************)
(* Scores: exact rationals in lowest terms.                                *)
(***************************************************************************)
RECURSIVE Gcd(_, _)
Gcd(x, y) == IF y = 0 THEN x ELSE Gcd(y, x % y)

Rat(num, den) == LET g == Gcd(num, den) IN <<num \div g, den \div g>>

\* the floor a substring match is raised to, 0.6
boost_floor == Rat(3, 5)

Geq(x, y) == x[1] * y[2] >= y[1] * x[2]
Gt(x, y) == x[1] * y[2] > y[1] * x[2]

(***************************************************************************)
(* difflib.SequenceMatcher(None, a, b).ratio(), as calculate_similarity    *)
(* uses it.  Positions are 0-based and ranges half-open, as in difflib.    *)
(* No element is junk: isjunk is None and the automatic junk heuristic     *)
(* applies only to a second sequence of 200 or more elements.              *)
(***************************************************************************)
\* the longest block a[i:i+k] == b[j:j+k] inside a[alo:ahi], b[blo:bhi];
\* of the longest ones the one starting earliest in a, then earliest in b
find_longest_match(a, b, alo, ahi, blo, bhi) ==
    LET Blocks == {t \in (alo..(ahi - 1)) \X (blo..(bhi - 1)) \X (1..(ahi - alo)) :
                      /\ t[1] + t[3] <= ahi
                      /\ t[2] + t[3] <= bhi
                      /\ \A x \in 0..(t[3] - 1) : a[t[1] + x + 1] = b[t[2] + x + 1]}
    IN  IF Blocks = {} THEN <<alo, blo, 0>>
        ELSE CHOOSE t \in Blocks :
                \A w \in Blocks :
                    \/ t[3] > w[3]
                    \/ t[3] = w[3] /\ t[1] < w[1]
                    \/ t[3] = w[3] /\ t[1] = w[1] /\ t[2] <= w[2]

\* the total size of get_matching_blocks(): the longest block, then the
\* same again to its left and to its right
RECURSIVE matching_size(_, _, _, _, _, _)
matching_size(a, b, alo, ahi, blo, bhi) ==
    LET t == find_longest_match(a, b, alo, ahi, blo, bhi)
        i == t[1]
        j == t[2]
        k == t[3]
    IN  IF k = 0 THEN 0
        ELSE k
             + (IF alo < i /\ blo < j
                THEN matching_size(a, b, alo, i, blo, j) ELSE 0)
             + (IF i + k < ahi /\ j + k < bhi
                THEN matching_size(a, b, i + k, ahi, j + k, bhi) ELSE 0)

\* ratio(): 2.0 * matches / (len(a) + len(b)), and 1.0 for two empty strings
ratio(a, b) ==
    LET length == Len(a) + Len(b)
    IN  IF length = 0 THEN Rat(1, 1)
        ELSE Rat(2 * matching_size(a, b, 0, Len(a), 0, Len(b)), length)

calculate_similarity(str1, str2) == ratio(lower(str1), lower(str2))

(***************************************************************************)
(* The inputs of the model.                                                *)
(***************************************************************************)
BASE_URL == "https://www.ipoplatform.com"

\* f"{self.BASE_URL}/ipo/{slug}/{company_id}"
company_url(slug, id) == <<BASE_URL, "ipo", slug, id>>

Company(id, slug, name, category) ==
    [name |-> name, slug |-> slug, id |-> id, url |-> company_url(slug, id),
     category |-> category]

SudeepPharma == <<ch.S, ch.u, ch.d, ch.e, ch.e, ch.p, ch.sp,
                  ch.P, ch.h, ch.a, ch.r, ch.m, ch.a>>
SuyogPharma == <<ch.S, ch.u, ch.y, ch.o, ch.g, ch.sp,
                 ch.P, ch.h, ch.a, ch.r, ch.m, ch.a>>
Sudeep == <<ch.S, ch.u, ch.d, ch.e, ch.e, ch.p>>
mainboard == <<ch.m, ch.a, ch.i, ch.n, ch.b, ch.o, ch.a, ch.r, ch.d>>
sme == <<ch.s, ch.m, ch.e>>
SME == <<ch.S, ch.M, ch.E>>
upcoming == <<ch.u, ch.p, ch.c, ch.o, ch.m, ch.i, ch.n, ch.g>>

\* the companies a loaded index may hold: the two of the ranking example
\* (they tie on the query "a", which the boost raises to 0.6 for both), a
\* short name, and two records that lack keys, one repeating the id "1"
Universe ==
    { Company("1", "sudeep-pharma-ipo", SudeepPharma, mainboard),
      Company("2", "suyog-pharma-ipo", SuyogPharma, sme),
      Company("3", "ab-ipo", <<ch.a, ch.b>>, SME),
      [name |-> <<ch.b, ch.a, ch.b>>, slug |-> "ab-ipo"],
      [name |-> <<ch.A, ch.b, ch.b>>, id |-> "1", category |-> mainboard] }

Collections == UNION {[1..n -> Universe] : n \in 0..MaxCompanies}

Queries == {<<>>, <<ch.a>>, <<ch.A, ch.B>>, Sudeep}
Limits == (0 - 1)..MaxLimit
default_min_score == Rat(3, 10)
MinScores == {Rat(0, 1), default_min_score, Rat(2, 3)}
LookupIds == {"1", "3", "9"}
LookupSlugs == {"ab-ipo", "suyog-pharma-ipo", "none"}
LookupCategories == {sme, SME, mainboard, <<ch.b>>}

(***************************************************************************)
(* Return values.                                                          *)
(***************************************************************************)
Return(v) == [kind |-> "return", value |-> v]
ReturnNone == [kind |-> "none"]
Raise(e) == [kind |-> "raise", exc |-> e]

(***************************************************************************)
(* The index file.  Its text is a sequence of JSON tokens: <<"{">>,        *)
(* <<"}">>, <<"[">>, <<"]">>, <<"key", k>>, <<"str", s>>, <<"num", n>>     *)
(* (commas, colons and indentation carry no information).  json.dump       *)
(* writes the tokens and json.load parses them back.                       *)
(***************************************************************************)
NoFile == [exists |-> FALSE]
File(tokens) == [exists |-> TRUE, tokens |-> tokens]

\* the keys of a company in the order extract_company_from_link and
\* scrape_category insert them
KeyOrder == <<"name", "slug", "id", "url", "category">>

RECURSIVE dump_members(_, _)
dump_members(obj, keys) ==
    IF keys = <<>> THEN <<>>
    ELSE (IF Head(keys) \in DOMAIN obj
          THEN << <<"key", Head(keys)>>, <<"str", obj[Head(keys)]>> >>
          ELSE <<>>)
         \o dump_members(obj, Tail(keys))

dump_company(obj) == << <<"{">> >> \o dump_members(obj, KeyOrder) \o << <<"}">> >>

RECURSIVE dump_companies(_)
dump_companies(cs) ==
    IF cs = <<>> THEN <<>> ELSE dump_company(Head(cs)) \o dump_companies(Tail(cs))

\* json.dump({'total_companies': .., 'last_updated': .., 'companies': ..})
json_dump(total, stamp, cs) ==
    << <<"{">>, <<"key", "total_companies">>, <<"num", total>>,
       <<"key", "last_updated">>, <<"str", stamp>>,
       <<"key", "companies">>, <<"[">> >>
    \o dump_companies(cs) \o << <<"]">>, <<"}">> >>

ParseFail == [ok |-> FALSE]
Parsed(type, value, next) == [ok |-> TRUE, type |-> type, value |-> value, next |-> next]

RECURSIVE parse_value(_, _)
RECURSIVE parse_members(_, _, _)
RECURSIVE parse_elements(_, _, _)

parse_value(toks, p) ==
    IF p > Len(toks) THEN ParseFail
    ELSE IF toks[p][1] \in {"str", "num"} THEN Parsed(toks[p][1], toks[p][2], p + 1)
    ELSE IF toks[p][1] = "{" THEN parse_members(toks, p + 1, <<>>)
    ELSE IF toks[p][1] = "[" THEN parse_elements(toks, p + 1, <<>>)
    ELSE ParseFail

\* the members of an object; a repeated key keeps its last value
parse_members(toks, p, acc) ==
    IF p > Len(toks) THEN ParseFail
    ELSE IF toks[p][1] = "}" THEN Parsed("object", acc, p + 1)
    ELSE IF toks[p][1] = "key"
         THEN LET v == parse_value(toks, p + 1)
              IN  IF v.ok
                  THEN parse_members(toks, v.next, (toks[p][2] :> v.value) @@ acc)
                  ELSE ParseFail
    ELSE ParseFail

parse_elements(toks, p, acc) ==
    IF p > Len(toks) THEN ParseFail
    ELSE IF toks[p][1] = "]" THEN Parsed("array", acc, p + 1)
    ELSE LET v == parse_value(toks, p)
         IN  IF v.ok THEN parse_elements(toks, v.next, Append(acc, v.value))
             ELSE ParseFail

\* json.load: one value and nothing after it
json_load(toks) ==
    LET r == parse_value(toks, 1)
    IN  IF r.ok /\ r.next = Len(toks) + 1 THEN r ELSE ParseFail

(***************************************************************************)
(* IPOSearchEngine.                                                        *)
(***************************************************************************)
\* load_index: a missing file, a file that does not parse and a document
\* that is no object all end in an except branch that leaves self.companies
\* as it was; otherwise self.companies = data.get('companies', [])
load_index(self_companies, file) ==
    IF ~file.exists THEN self_companies
    ELSE LET r == json_load(file.tokens)
         IN  IF ~r.ok THEN self_companies
             ELSE IF r.type # "object" THEN self_companies
             ELSE IF "companies" \in DOMAIN r.value THEN r.value["companies"]
             ELSE <<>>

\* __init__: self.companies = [] and then load_index(index_file)
engine_init(file) == load_index(<<>>, file)

\* company_score without the substring test
company_score_unboosted(query, name) == calculate_similarity(query, name)

\* company_score adding 0.6 to the similarity of a substring match
company_score_additive(query, name) ==
    LET score == calculate_similarity(query, name)
    IN  IF Contains(lower(query), lower(name))
        THEN Rat(5 * score[1] + 3 * score[2], 5 * score[2])
        ELSE score

\* the score of one company: the similarity, raised to 0.6 when the
\* lower-cased query occurs in the lower-cased name (max(score, 0.6))
company_score(query, name) ==
    LET score == calculate_similarity(query, name)
    IN  IF Contains(lower(query), lower(name))
        THEN (IF Gt(boost_floor, score) THEN boost_floor ELSE score)
        ELSE score

\* company_score over the queries and names of the model, computed once
ScoreTable ==
    [query \in Queries, name \in {c["name"] : c \in Universe} |->
        company_score(query, name)]

\* result = company.copy(); result['match_score'] = score
with_score(company, score) == ("match_score" :> score) @@ company

\* scored_results keeping only the scores strictly above min_score
scored_results_strict(cs, query, min_score) ==
    LET all == [k \in 1..Len(cs) |-> with_score(cs[k], ScoreTable[query, cs[k]["name"]])]
    IN  SelectSeq(all, LAMBDA r : Gt(r["match_score"], min_score))

\* the loop of search: the qualifying companies, scored, in collection order
scored_results(cs, query, min_score) ==
    LET all == [k \in 1..Len(cs) |-> with_score(cs[k], ScoreTable[query, cs[k]["name"]])]
    IN  SelectSeq(all, LAMBDA r : Geq(r["match_score"], min_score))

\* sort_insert placing an entry before the entries of equal score
sort_insert_before_ties(sorted, r) ==
    LET at == Cardinality({k \in 1..Len(sorted) :
                              Gt(sorted[k]["match_score"], r["match_score"])})
    IN  SubSeq(sorted, 1, at) \o <<r>> \o SubSeq(sorted, at + 1, Len(sorted))

\* results.sort(key=match_score, reverse=True): a stable sort, so an entry
\* goes after every entry whose score is greater or equal
sort_insert(sorted, r) ==
    LET at == Cardinality({k \in 1..Len(sorted) :
                              Geq(sorted[k]["match_score"], r["match_score"])})
    IN  SubSeq(sorted, 1, at) \o <<r>> \o SubSeq(sorted, at + 1, Len(sorted))

RECURSIVE sort_by_score(_)
sort_by_score(results) ==
    IF results = <<>> THEN <<>>
    ELSE sort_insert(sort_by_score(SubSeq(results, 1, Len(results) - 1)),
                     results[Len(results)])

\* results[:limit], a negative limit counting from the end
slice_to(results, limit) ==
    LET stop == IF limit < 0 THEN Max(Len(results) + limit, 0)
                ELSE Min(limit, Len(results))
    IN  SubSeq(results, 1, stop)

\* search without the guard of its first line
search_unguarded(cs, query, limit, min_score) ==
    IF \E k \in 1..Len(cs) : "name" \notin DOMAIN cs[k] THEN Raise("KeyError")
    ELSE Return(slice_to(sort_by_score(scored_results(cs, query, min_score)), limit))

\* the collection if the loop of search wrote the score into the stored
\* company (result = company) instead of a copy, up to the company whose
\* missing name ends the loop
companies_scored_in_place(cs, query, min_score) ==
    IF query = <<>> \/ cs = <<>> THEN cs
    ELSE LET named(k) == \A j \in 1..k : "name" \in DOMAIN cs[j]
         IN  [k \in 1..Len(cs) |->
                IF named(k) /\ Geq(ScoreTable[query, cs[k]["name"]], min_score)
                THEN with_score(cs[k], ScoreTable[query, cs[k]["name"]])
                ELSE cs[k]]

\* self.companies after search: the loop reads each stored company and
\* writes match_score into company.copy(), never into the stored one
companies_after_search(cs, query, min_score) == cs

search(cs, query, limit, min_score) ==
    IF query = <<>> \/ cs = <<>> THEN Return(<<>>)
    ELSE IF \E k \in 1..Len(cs) : "name" \notin DOMAIN cs[k] THEN Raise("KeyError")
    ELSE Return(slice_to(sort_by_score(scored_results(cs, query, min_score)), limit))

\* search_by_id, search_by_slug: the loop stops at the first company that
\* lacks the key (KeyError) or holds the wanted value
lookup(cs, key, wanted) ==
    LET stops == {k \in 1..Len(cs) : key \notin DOMAIN cs[k] \/ cs[k][key] = wanted}
    IN  IF stops = {} THEN ReturnNone
        ELSE LET k == CHOOSE x \in stops : \A y \in stops : x <= y
             IN  IF key \notin DOMAIN cs[k] THEN Raise("KeyError") ELSE Return(cs[k])

search_by_id(cs, company_id) == lookup(cs, "id", company_id)
search_by_slug(cs, slug) == lookup(cs, "slug", slug)

\* c.get('category', '').lower() == category.lower()
search_by_category(cs, category) ==
    Return(SelectSeq(cs, LAMBDA c :
        lower(IF "category" \in DOMAIN c THEN c["category"] ELSE <<>>) = lower(category)))

\* sorted(list(set)): ascending by code point
RECURSIVE sorted(_)
sorted(set) ==
    IF set = {} THEN <<>>
    ELSE LET least == CHOOSE s \in set : \A t \in set : s = t \/ StrLess(s, t)
         IN  <<least>> \o sorted(set \ {least})

\* get_all_categories collecting into a list and not sorting
get_all_categories_list(cs) ==
    Return(SelectSeq([k \in 1..Len(cs) |->
                         IF "category" \in DOMAIN cs[k] THEN cs[k]["category"] ELSE <<>>],
                     LAMBDA c : c # <<>>))

get_all_categories(cs) ==
    Return(sorted({cs[k]["category"] : k \in {x \in 1..Len(cs) : "category" \in DOMAIN cs[x]}}))

\* index files the engine may be started on: none, one cut off in the
\* middle, a document that is an array, an object without 'companies',
\* and the saved form of every collection
TruncatedFile == File(SubSeq(json_dump(0, "t", <<>>), 1, 4))
ArrayFile == File(<< <<"[">>, <<"]">> >>)
BareFile == File(<< <<"{">>, <<"key", "total_companies">>, <<"num", 0>>, <<"}">> >>)
EngineFiles ==
    {NoFile, TruncatedFile, ArrayFile, BareFile}
    \cup {File(json_dump(Len(cs), "t", cs)) : cs \in Collections}

(***************************************************************************)
(* The search engine: constructed on an index file, then queried.          *)
(***************************************************************************)
Init ==
    /\ index_file \in EngineFiles
    /\ companies = engine_init(index_file)
    /\ bcompanies = <<>>
    /\ pages = <<>>
    /\ call = [op |-> "init"]
    /\ prev = [op |-> "init"]
    /\ ret = ReturnNone
    /\ NoExtractor
    /\ NoTools

Search ==
    \E query \in Queries, limit \in Limits, min_score \in MinScores :
        /\ call' = [op |-> "search", query |-> query, limit |-> limit,
                    min_score |-> min_score]
        /\ ret' = search(companies, query, limit, min_score)
        /\ companies' = companies_after_search(companies, query, min_score)
        /\ UNCHANGED <<bcompanies, index_file, pages, prev>>
        /\ UNCHANGED extractor_vars
        /\ UNCHANGED tool_vars

SearchById ==
    \E company_id \in LookupIds :
        /\ call' = [op |-> "search_by_id", arg |-> company_id]
        /\ ret' = search_by_id(companies, company_id)
        /\ UNCHANGED <<companies, bcompanies, index_file, pages, prev>>
        /\ UNCHANGED extractor_vars
        /\ UNCHANGED tool_vars

SearchBySlug ==
    \E slug \in LookupSlugs :
        /\ call' = [op |-> "search_by_slug", arg |-> slug]
        /\ ret' = search_by_slug(companies, slug)
        /\ UNCHANGED <<companies, bcompanies, index_file, pages, prev>>
        /\ UNCHANGED extractor_vars
        /\ UNCHANGED tool_vars

SearchByCategory ==
    \E category \in LookupCategories :
        /\ call' = [op |-> "search_by_category", arg |-> category]
        /\ ret' = search_by_category(companies, category)
        /\ UNCHANGED <<companies, bcompanies, index_file, pages, prev>>
        /\ UNCHANGED extractor_vars
        /\ UNCHANGED tool_vars

GetAllCategories ==
    /\ call' = [op |-> "get_all_categories"]
    /\ ret' = get_all_categories(companies)
    /\ UNCHANGED <<companies, bcompanies, index_file, pages, prev>>
    /\ UNCHANGED extractor_vars
    /\ UNCHANGED tool_vars

Next == Search \/ SearchById \/ SearchBySlug \/ SearchByCategory \/ GetAllCategories

Spec == Init /\ [][Next]_vars

(***************************************************************************)
(* IPOIndexBuilder.                                                        *)
(***************************************************************************)
IsSpace(c) == c \in {ch.sp, ch.nl}

RECURSIVE rstrip(_)
rstrip(s) ==
    IF s # <<>> /\ IsSpace(s[Len(s)]) THEN rstrip(SubSeq(s, 1, Len(s) - 1)) ELSE s

RECURSIVE lstrip(_)
lstrip(s) == IF s # <<>> /\ IsSpace(Head(s)) THEN lstrip(Tail(s)) ELSE s

\* str.strip()
strip(s) == lstrip(rstrip(s))

\* re.sub(r'\s+IPO\s*$', '', name, flags=re.IGNORECASE): a final "IPO" in
\* any case, the white space before it (at least one) and after it
sub_ipo_suffix(name) ==
    LET t == rstrip(name)
        n == Len(t)
    IN  IF /\ n >= 4
           /\ lower(SubSeq(t, n - 2, n)) = <<ch.i, ch.p, ch.o>>
           /\ IsSpace(t[n - 3])
        THEN rstrip(SubSeq(t, 1, n - 3))
        ELSE name

\* title.replace(' IPO', ''): every occurrence, left to right
RECURSIVE replace_ipo(_)
replace_ipo(title) ==
    IF Len(title) < 4 THEN title
    ELSE IF SubSeq(title, 1, 4) = <<ch.sp, ch.I, ch.P, ch.O>>
         THEN replace_ipo(SubSeq(title, 5, Len(title)))
         ELSE <<Head(title)>> \o replace_ipo(Tail(title))

\* the strings of digits of the model (\d+)
Digits == {"1", "2"}

\* re.search(r'/ipo/([^/]+)/(\d+)', href) on the segments of the href: the
\* first "ipo" segment followed by a segment and a segment of digits
ipo_match(href) ==
    LET at == {k \in 1..(Len(href) - 2) : href[k] = "ipo" /\ href[k + 2] \in Digits}
    IN  IF at = {} THEN [ok |-> FALSE]
        ELSE LET k == CHOOSE x \in at : \A y \in at : x <= y
             IN  [ok |-> TRUE, slug |-> href[k + 1], id |-> href[k + 2]]

\* extract_company_from_link; get_text(strip=True) is the link's text
extract_company_from_link(link) ==
    LET match == ipo_match(link.href)
        text == sub_ipo_suffix(strip(link.text))
        company_name == IF text = <<>> THEN replace_ipo(link.title) ELSE text
    IN  IF ~match.ok THEN [ok |-> FALSE]
        ELSE IF company_name = <<>> THEN [ok |-> FALSE]
        ELSE [ok |-> TRUE,
              company |-> [name |-> strip(company_name), slug |-> match.slug,
                           id |-> match.id, url |-> company_url(match.slug, match.id)]]

\* scrape_category dropping the `seen` test
RECURSIVE scrape_links_unseen(_, _, _, _)
scrape_links_unseen(links, category_name, out, seen) ==
    IF links = <<>> THEN out
    ELSE LET got == extract_company_from_link(Head(links))
         IN  IF got.ok
             THEN scrape_links_unseen(Tail(links), category_name,
                      Append(out, got.company @@ ("category" :> category_name)),
                      seen \cup {got.company.id})
             ELSE scrape_links_unseen(Tail(links), category_name, out, seen)

\* the loop of scrape_category over the links of one page: a company whose
\* id was seen on this page is skipped
RECURSIVE scrape_links(_, _, _, _)
scrape_links(links, category_name, out, seen) ==
    IF links = <<>> THEN out
    ELSE LET got == extract_company_from_link(Head(links))
         IN  IF got.ok /\ got.company.id \notin seen
             THEN scrape_links(Tail(links), category_name,
                      Append(out, got.company @@ ("category" :> category_name)),
                      seen \cup {got.company.id})
             ELSE scrape_links(Tail(links), category_name, out, seen)

\* scrape_category: nothing when the page could not be fetched
scrape_category(category_name, page) ==
    IF ~page.ok THEN <<>> ELSE scrape_links(page.links, category_name, <<>>, {})

\* CATEGORIES, in the order of the dict
CATEGORIES == <<mainboard, sme, upcoming>>

\* unique_companies[company['id']] = company: a new id is appended, a known
\* id keeps its place and takes the new value
dict_put(unique, company) ==
    IF \E k \in 1..Len(unique) : unique[k].id = company.id
    THEN [k \in 1..Len(unique) |->
             IF unique[k].id = company.id THEN company ELSE unique[k]]
    ELSE Append(unique, company)

RECURSIVE dict_put_all(_, _)
dict_put_all(unique, cs) ==
    IF cs = <<>> THEN unique ELSE dict_put_all(dict_put(unique, Head(cs)), Tail(cs))

\* build_index: the categories scraped in order, then one entry per id
build_index(web) ==
    LET all_companies == scrape_category(CATEGORIES[1], web[1])
                         \o scrape_category(CATEGORIES[2], web[2])
                         \o scrape_category(CATEGORIES[3], web[3])
    IN  dict_put_all(<<>>, all_companies)

\* save_index: nothing is written for an empty collection
save_index(self_companies, file, stamp) ==
    IF self_companies = <<>> THEN file
    ELSE File(json_dump(Len(self_companies), stamp, self_companies))

\* load_index reading the key 'company'
builder_load_index_wrong_key(self_companies, file) ==
    IF ~file.exists THEN [companies |-> self_companies, result |-> <<>>]
    ELSE LET r == json_load(file.tokens)
         IN  IF ~r.ok \/ r.type # "object"
             THEN [companies |-> self_companies, result |-> <<>>]
             ELSE LET cs == IF "company" \in DOMAIN r.value
                            THEN r.value["company"] ELSE <<>>
                  IN  [companies |-> cs, result |-> cs]

\* IPOIndexBuilder.load_index: self.companies afterwards and the list
\* returned; the except branches return [] and leave self.companies
builder_load_index(self_companies, file) ==
    IF ~file.exists THEN [companies |-> self_companies, result |-> <<>>]
    ELSE LET r == json_load(file.tokens)
         IN  IF ~r.ok \/ r.type # "object"
             THEN [companies |-> self_companies, result |-> <<>>]
             ELSE LET cs == IF "companies" \in DOMAIN r.value
                            THEN r.value["companies"] ELSE <<>>
                  IN  [companies |-> cs, result |-> cs]

(***************************************************************************)
(* The listing pages served to build_index.                                *)
(***************************************************************************)
FetchFailed == [ok |-> FALSE]
Page(links) == [ok |-> TRUE, links |-> links]

\* the links of the model: two with the id "1" and different slug and
\* text, one named by its title, one for which no name is found
Links ==
    { [href |-> <<"ipo", "ab-ipo", "1">>,
       text |-> <<ch.a, ch.b, ch.sp, ch.I, ch.P, ch.O>>, title |-> <<>>],
      [href |-> <<BASE_URL, "ipo", "abb-ltd-ipo", "1">>,
       text |-> <<ch.A, ch.b, ch.b>>, title |-> <<>>],
      [href |-> <<"ipo", "ba-ipo", "2">>,
       text |-> <<>>, title |-> <<ch.b, ch.a, ch.sp, ch.I, ch.P, ch.O>>],
      [href |-> <<"ipo", "none-ipo", "2">>, text |-> <<>>, title |-> <<>>] }

\* the states of a page with exactly n links
PagesWith(n) ==
    {Page(l) : l \in [1..n -> Links]} \cup (IF n = 0 THEN {FetchFailed} ELSE {})

\* three pages holding MaxLinks links at most between them
Webs ==
    UNION {UNION {UNION {PagesWith(n1) \X PagesWith(n2) \X PagesWith(n3) :
                            n3 \in 0..(MaxLinks - n1 - n2)} :
                     n2 \in 0..(MaxLinks - n1)} :
              n1 \in 0..MaxLinks}

\* the index file found by a build: none, or one saved by an earlier run
StaleFile ==
    File(json_dump(1, "earlier", <<Company("2", "suyog-pharma-ipo", SuyogPharma, sme)>>))
StartFiles == {NoFile, StaleFile, TruncatedFile}

(***************************************************************************)
(* The builder's main: build_index, save_index; then the index is loaded,  *)
(* by the builder or by a new search engine.                               *)
(***************************************************************************)
InitIndex ==
    /\ index_file \in StartFiles
    /\ companies = <<>>
    /\ bcompanies = <<>>
    /\ pages = <<>>
    /\ call = [op |-> "init"]
    /\ prev = [op |-> "init"]
    /\ ret = ReturnNone
    /\ NoExtractor
    /\ NoTools

BuildIndex ==
    /\ call.op = "init"
    /\ \E web \in Webs :
        /\ pages' = web
        /\ bcompanies' = build_index(web)
        /\ ret' = Return(build_index(web))
    /\ call' = [op |-> "build_index"]
    /\ prev' = call
    /\ UNCHANGED <<companies, index_file>>
    /\ UNCHANGED extractor_vars
    /\ UNCHANGED tool_vars

SaveIndex ==
    /\ call.op = "build_index"
    /\ index_file' = save_index(bcompanies, index_file, "now")
    /\ call' = [op |-> "save_index", saved |-> bcompanies, before |-> index_file]
    /\ prev' = call
    /\ ret' = ReturnNone
    /\ UNCHANGED <<companies, bcompanies, pages>>
    /\ UNCHANGED extractor_vars
    /\ UNCHANGED tool_vars

BuilderLoadIndex ==
    /\ call.op = "save_index"
    /\ LET got == builder_load_index(bcompanies, index_file)
       IN  /\ bcompanies' = got.companies
           /\ ret' = Return(got.result)
    /\ call' = [op |-> "load_index"]
    /\ prev' = call
    /\ UNCHANGED <<companies, index_file, pages>>
    /\ UNCHANGED extractor_vars
    /\ UNCHANGED tool_vars

EngineLoadIndex ==
    /\ call.op = "save_index"
    /\ companies' = engine_init(index_file)
    /\ call' = [op |-> "engine_init"]
    /\ prev' = call
    /\ ret' = ReturnNone
    /\ UNCHANGED <<bcompanies, index_file, pages>>
    /\ UNCHANGED extractor_vars
    /\ UNCHANGED tool_vars

NextIndex == BuildIndex \/ SaveIndex \/ BuilderLoadIndex \/ EngineLoadIndex

SpecIndex == InitIndex /\ [][NextIndex]_vars

(***************************************************************************)
(* Properties of IPOSearchEngine.                                          *)
(***************************************************************************)
SearchReturned == call.op = "search" /\ ret.kind = "return"

\* search ran its scoring loop: neither guard of its first line applied
SearchScored == SearchReturned /\ call.query # <<>> /\ companies # <<>>

\* a result without its match_score
Unscored(r) == [k \in DOMAIN r \ {"match_score"} |-> r[k]]

\* s can be obtained from t by deleting elements
RECURSIVE IsSubsequence(_, _)
IsSubsequence(s, t) ==
    IF s = <<>> THEN TRUE
    ELSE IF t = <<>> THEN FALSE
    ELSE IF Head(s) = Head(t) THEN IsSubsequence(Tail(s), Tail(t))
    ELSE IsSubsequence(s, Tail(t))

\* the first n entries of s, none for n <= 0
FirstN(s, n) == SubSeq(s, 1, Min(Max(n, 0), Len(s)))

\* the companies (by position) whose score for the query reaches min_score
Qualifying(query, min_score) ==
    {k \in 1..Len(companies) : Geq(ScoreTable[query, companies[k]["name"]], min_score)}

\* C1: the results of search are in non-increasing order of match_score,
\* and the results of one score are, in their order, a subsequence of the
\* loaded collection (ties keep the collection's order).
C1_SortedStable ==
    SearchReturned =>
        LET R == ret.value
        IN  /\ \A x, y \in 1..Len(R) :
                   x < y => Geq(R[x]["match_score"], R[y]["match_score"])
            /\ \A x \in 1..Len(R) :
                   LET tied == SelectSeq(R, LAMBDA r : r["match_score"] = R[x]["match_score"])
                   IN  IsSubsequence([k \in 1..Len(tied) |-> Unscored(tied[k])], companies)

\* two different companies tie and are both returned
C1_Witness ==
    /\ SearchReturned
    /\ Len(ret.value) = 2
    /\ ret.value[1]["match_score"] = ret.value[2]["match_score"]
    /\ Unscored(ret.value[1]) # Unscored(ret.value[2])

\* C2: for every limit the result of search is the first `limit` entries of
\* the sorted list of all qualifying companies, so it has at most `limit`
\* entries (none for a limit below 1).
C2_FirstLimitOfSorted ==
    SearchScored =>
        /\ ret.value = FirstN(search(companies, call.query, Len(companies),
                                     call.min_score).value, call.limit)
        /\ Len(ret.value) <= Max(call.limit, 0)

\* C3: when search scores the collection, every result has a match_score of
\* at least min_score and is a company of the collection with its computed
\* score, and when the qualifying companies are no more than limit, each of
\* them is returned.
C3_MinScoreFilter ==
    SearchScored =>
        LET R == ret.value
            Q == Qualifying(call.query, call.min_score)
        IN  /\ \A x \in 1..Len(R) : Geq(R[x]["match_score"], call.min_score)
            /\ \A x \in 1..Len(R) : \E k \in Q :
                   R[x] = with_score(companies[k], ScoreTable[call.query, companies[k]["name"]])
            /\ Cardinality(Q) <= call.limit =>
                   /\ Len(R) = Cardinality(Q)
                   /\ \A k \in Q : \E x \in 1..Len(R) : Unscored(R[x]) = companies[k]

\* one company is returned and another is excluded for its score
C3_Witness ==
    /\ SearchScored
    /\ Len(companies) = 2
    /\ Len(ret.value) = 1
    /\ call.limit = 2
    /\ Cardinality(Qualifying(call.query, call.min_score)) = 1

\* C4: search returns the empty sequence and does not raise when the query
\* is empty or the collection is empty, and the collection is empty when
\* the index file was missing or did not parse at load.
C4_EmptyInputs ==
    /\ (~index_file.exists \/ ~json_load(index_file.tokens).ok) => companies = <<>>
    /\ (call.op = "search" /\ (call.query = <<>> \/ companies = <<>>)) => ret = Return(<<>>)

\* an empty query on a loaded collection
C4_Witness ==
    /\ call.op = "search"
    /\ call.query = <<>>
    /\ Len(companies) = 2
    /\ ret = Return(<<>>)

\* a query on an engine whose index file was missing
C4_WitnessNoFile ==
    /\ call.op = "search"
    /\ call.query # <<>>
    /\ index_file = NoFile
    /\ ret = Return(<<>>)

NamesOf(cs) == [k \in 1..Len(cs) |-> cs[k]["name"]]

\* C5: a result whose lower-cased name contains the lower-cased query has a
\* match_score of at least 0.6; with the default min_score and a limit that
\* truncates nothing, every company whose name contains the query is
\* returned; and for the two companies Sudeep Pharma and Suyog Pharma, in
\* either order, the query "Sudeep" ranks Sudeep Pharma first.
C5_SubstringBoost ==
    SearchScored =>
        LET R == ret.value
        IN  /\ \A x \in 1..Len(R) :
                   Contains(lower(call.query), lower(R[x]["name"]))
                       => Geq(R[x]["match_score"], Rat(3, 5))
            /\ (call.min_score = Rat(3, 10) /\ call.limit >= Len(companies)) =>
                   \A k \in 1..Len(companies) :
                       Contains(lower(call.query), lower(companies[k]["name"]))
                           => \E x \in 1..Len(R) : Unscored(R[x]) = companies[k]
            /\ ( /\ NamesOf(companies) \in {<<SudeepPharma, SuyogPharma>>,
                                            <<SuyogPharma, SudeepPharma>>}
                 /\ call.query = Sudeep
                 /\ call.min_score = Rat(3, 10)
                 /\ call.limit = 2 )
               => NamesOf(R) = <<SudeepPharma, SuyogPharma>>

\* a result whose similarity is below 0.6 and whose score is 0.6
C5_Witness ==
    /\ SearchScored
    /\ \E x \in 1..Len(ret.value) :
           /\ Contains(lower(call.query), lower(ret.value[x]["name"]))
           /\ Gt(Rat(3, 5), calculate_similarity(call.query, ret.value[x]["name"]))
           /\ ret.value[x]["match_score"] = Rat(3, 5)

\* the ranking example, with the collection in the opposite order
C5_WitnessExample ==
    /\ SearchScored
    /\ call.query = Sudeep
    /\ NamesOf(companies) = <<SuyogPharma, SudeepPharma>>
    /\ NamesOf(ret.value) = <<SudeepPharma, SuyogPharma>>

\* C6: every match_score returned by search lies in [0,1].
C6_ScoreRange ==
    SearchReturned =>
        \A x \in 1..Len(ret.value) :
            LET score == ret.value[x]["match_score"]
            IN  /\ score[2] > 0
                /\ Geq(score, Rat(0, 1))
                /\ Geq(Rat(1, 1), score)

\* a search returns the score 1 and, after it, a lower score
C6_Witness ==
    /\ SearchReturned
    /\ Len(ret.value) = 2
    /\ ret.value[1]["match_score"] = Rat(1, 1)
    /\ Gt(Rat(1, 1), ret.value[2]["match_score"])

\* the first company, in collection order, that holds `wanted` under `key`
FirstWith(key, wanted) ==
    LET hits == {k \in 1..Len(companies) :
                    key \in DOMAIN companies[k] /\ companies[k][key] = wanted}
    IN  IF hits = {} THEN ReturnNone
        ELSE Return(companies[CHOOSE x \in hits : \A y \in hits : x <= y])

\* C7: search_by_id and search_by_slug never raise, and return the first
\* company whose id (slug) equals the argument, or None when there is none.
C7_LookupNeverRaises ==
    /\ call.op = "search_by_id" => ret = FirstWith("id", call.arg)
    /\ call.op = "search_by_slug" => ret = FirstWith("slug", call.arg)

\* C8: get_all_categories returns the category values of the collection,
\* each once, in ascending order, and search_by_category finds at least one
\* company for each of them.
C8_Categories ==
    call.op = "get_all_categories" =>
        /\ ret.kind = "return"
        /\ \A x \in 1..(Len(ret.value) - 1) : StrLess(ret.value[x], ret.value[x + 1])
        /\ {ret.value[x] : x \in 1..Len(ret.value)}
               = {companies[k]["category"] :
                      k \in {y \in 1..Len(companies) : "category" \in DOMAIN companies[y]}}
        /\ \A x \in 1..Len(ret.value) :
               search_by_category(companies, ret.value[x]).value # <<>>

\* two categories that differ only in case, listed upper case first
C8_Witness ==
    /\ call.op = "get_all_categories"
    /\ Len(companies) = 2
    /\ "category" \in DOMAIN companies[1]
    /\ companies[1]["category"] = sme
    /\ ret = Return(<<SME, sme>>)

(***************************************************************************)
(* Properties of IPOIndexBuilder.                                          *)
(***************************************************************************)
\* the companies extracted from the links of page c, every one of them
RECURSIVE ExtractedFrom(_, _)
ExtractedFrom(links, category_name) ==
    IF links = <<>> THEN <<>>
    ELSE LET got == extract_company_from_link(Head(links))
         IN  (IF got.ok THEN <<got.company @@ ("category" :> category_name)>> ELSE <<>>)
             \o ExtractedFrom(Tail(links), category_name)

Discovered(c) ==
    IF pages[c].ok THEN ExtractedFrom(pages[c].links, CATEGORIES[c]) ELSE <<>>

AllDiscovered == Discovered(1) \o Discovered(2) \o Discovered(3)

IdsOf(cs) == {cs[k].id : k \in 1..Len(cs)}

FirstWithId(cs, id) == cs[CHOOSE k \in 1..Len(cs) : cs[k].id = id /\ \A j \in 1..(k - 1) : cs[j].id # id]
LastWithId(cs, id) == cs[CHOOSE k \in 1..Len(cs) : cs[k].id = id /\ \A j \in (k + 1)..Len(cs) : cs[j].id # id]

\* exactly one company of the built collection holds each discovered id
OnePerId ==
    /\ \A x, y \in 1..Len(bcompanies) : bcompanies[x].id = bcompanies[y].id => x = y
    /\ IdsOf(bcompanies) = IdsOf(AllDiscovered)

\* C9 as stated: after build_index one company remains for each discovered
\* id and it holds the fields of the last entry discovered with that id,
\* on one page or over several.
C9_LastDiscoveredWins ==
    call.op = "build_index" =>
        /\ OnePerId
        /\ \A x \in 1..Len(bcompanies) :
               bcompanies[x] = LastWithId(AllDiscovered, bcompanies[x].id)

\* C9 amended: after build_index one company remains for each discovered
\* id; it holds the fields of the first entry with that id on the last
\* category page (in the order of CATEGORIES) that lists the id.
C9_FirstOnPageLastCategoryWins ==
    call.op = "build_index" =>
        /\ OnePerId
        /\ \A x \in 1..Len(bcompanies) :
               LET id == bcompanies[x].id
                   c == CHOOSE p \in 1..3 :
                            /\ id \in IdsOf(Discovered(p))
                            /\ \A q \in (p + 1)..3 : id \notin IdsOf(Discovered(q))
               IN  bcompanies[x] = FirstWithId(Discovered(c), id)

\* an id found twice, with different fields, on one page and again on a
\* later page
C9_Witness ==
    /\ call.op = "build_index"
    /\ \E p, q \in 1..3 : \E id \in IdsOf(Discovered(p)) :
           /\ p < q
           /\ FirstWithId(Discovered(p), id) # LastWithId(Discovered(p), id)
           /\ id \in IdsOf(Discovered(q))

\* C10 as stated: a collection saved with save_index and loaded again, by
\* the builder or by a new search engine, is the collection that was saved,
\* whatever the collection.
C10_RoundTrip ==
    /\ (call.op = "load_index" /\ prev.op = "save_index") =>
           bcompanies = prev.saved /\ ret = Return(prev.saved)
    /\ (call.op = "engine_init" /\ prev.op = "save_index") =>
           companies = prev.saved

\* C10 amended: a non-empty collection saved with save_index and loaded
\* again is the collection that was saved; for the empty collection
\* save_index leaves the index file as it was.
C10_RoundTripNonEmpty ==
    /\ (call.op = "load_index" /\ prev.op = "save_index" /\ prev.saved # <<>>) =>
           bcompanies = prev.saved /\ ret = Return(prev.saved)
    /\ (call.op = "engine_init" /\ prev.op = "save_index" /\ prev.saved # <<>>) =>
           companies = prev.saved
    /\ (call.op = "save_index" /\ call.saved = <<>>) => index_file = call.before

\* a new engine loads the two companies just saved over an earlier index
C10_Witness ==
    /\ call.op = "engine_init"
    /\ prev.op = "save_index"
    /\ prev.before = StaleFile
    /\ Len(prev.saved) = 2
    /\ companies = prev.saved

\* the builder loads the two companies just saved
C10_WitnessBuilder ==
    /\ call.op = "load_index"
    /\ prev.op = "save_index"
    /\ Len(prev.saved) = 2
    /\ ret = Return(prev.saved)

(***************************************************************************)
(* IPODataExtractor  (src/ipo_data_extractor.py).                          *)
(*                                                                         *)
(* The extractor searches the serialized markup with fixed patterns.  A    *)
(* document is modelled by the fragments those patterns find: a mapping    *)
(* from the name of a labelled place to the text standing there, a place   *)
(* the markup lacks being outside the mapping's domain.  What a pattern    *)
(* captures of the text, and every conversion applied to the capture, is   *)
(* computed on the code points.                                            *)
(***************************************************************************)
MaxTokens == 5         \* tokens in a text given to _clean_text

\* the placeholder token of the pages, as src/ipo_data_extractor.py spells it
placeholder == <<ch.lb, ch.q1, ch.q2, ch.q3, ch.rb>>

\* re.sub(r'\s+', ' ', s): every run of whitespace becomes one space
RECURSIVE collapse_whitespace(_)
collapse_whitespace(s) ==
    IF s = <<>> THEN <<>>
    ELSE IF IsSpace(Head(s)) THEN <<ch.sp>> \o collapse_whitespace(lstrip(s))
    ELSE <<Head(s)>> \o collapse_whitespace(Tail(s))

\* re.sub(re.escape(sub), '', s): the occurrences of sub, found left to
\* right without overlap, are deleted in one pass
RECURSIVE remove_all(_, _)
remove_all(sub, s) ==
    IF Len(s) < Len(sub) THEN s
    ELSE IF SubSeq(s, 1, Len(sub)) = sub
         THEN remove_all(sub, SubSeq(s, Len(sub) + 1, Len(s)))
    ELSE <<Head(s)>> \o remove_all(sub, Tail(s))

\* IPODataExtractor._clean_text
clean_text(text) ==
    IF text = <<>> THEN <<>>
    ELSE strip(remove_all(placeholder, collapse_whitespace(strip(text))))

\* the pieces the texts given to _clean_text are made of
TextTokens == {<<ch.sp>>, <<ch.nl>>, <<ch.a>>, placeholder}

RECURSIVE Concat(_)
Concat(parts) == IF parts = <<>> THEN <<>> ELSE Head(parts) \o Concat(Tail(parts))

\* every text of at most MaxTokens pieces
Texts == UNION {{Concat(t) : t \in [1..n -> TextTokens]} : n \in 0..MaxTokens}

(***************************************************************************)
(* The subscription table.                                                 *)
(***************************************************************************)
MaxCells == 2          \* header cells of a table, and cells of a row
MaxRows == 2           \* rows of a table body

\* [f(x) for x in xs] with f = _clean_text
clean_each(xs) == [k \in 1..Len(xs) |-> clean_text(xs[k])]

\* dict(zip(headers, cells)): pairs are made up to the shorter length and a
\* key that comes again takes the later value
zip_dict(headers, cells) ==
    LET n == Min(Len(headers), Len(cells))
        last(key) == CHOOSE i \in 1..n :
                         headers[i] = key /\ \A j \in (i + 1)..n : headers[j] # key
    IN  [key \in {headers[i] : i \in 1..n} |-> cells[last(key)]]

\* the loop over tbody.find_all('tr') without its `if cells and headers`
RECURSIVE table_rows_unguarded(_, _)
table_rows_unguarded(trs, headers) ==
    IF trs = <<>> THEN <<>>
    ELSE <<zip_dict(headers, clean_each(Head(trs)))>>
         \o table_rows_unguarded(Tail(trs), headers)

\* the loop over tbody.find_all('tr')
RECURSIVE table_rows(_, _)
table_rows(trs, headers) ==
    IF trs = <<>> THEN <<>>
    ELSE LET cells == clean_each(Head(trs))
         IN  (IF cells # <<>> /\ headers # <<>>
              THEN <<zip_dict(headers, cells)>> ELSE <<>>)
             \o table_rows(Tail(trs), headers)

\* IPODataExtractor._parse_subscription_table; a table is a mapping with
\* "thead" (its th texts) and "tbody" (its rows of td texts) where it has them
parse_subscription_table(table) ==
    LET headers == IF "thead" \in DOMAIN table
                   THEN clean_each(table["thead"]) ELSE <<>>
    IN  IF "tbody" \in DOMAIN table
        THEN table_rows(table["tbody"], headers) ELSE <<>>

\* tables: header texts that are distinct, equal, or equal once cleaned
SeqsUpTo(S, n) == UNION {[1..k -> S] : k \in 0..n}
HeaderTexts == {<<ch.Q>>, <<ch.N>>, <<ch.sp, ch.Q>>}
CellTexts == {<<ch.n1>>, <<ch.n2>>}
Theads == SeqsUpTo(HeaderTexts, MaxCells)
\* rows: the neighbouring cells of a row differ
Trs == {tr \in SeqsUpTo(CellTexts, MaxCells) :
           \A k \in 1..(Len(tr) - 1) : tr[k] # tr[k + 1]}
Tbodies == SeqsUpTo(Trs, MaxRows)
Tables ==
    {<<>>}
    \cup {("thead" :> h) : h \in Theads}
    \cup {("tbody" :> b) : b \in Tbodies}
    \cup {("thead" :> h) @@ ("tbody" :> b) : h \in Theads, b \in Tbodies}

(***************************************************************************)
(* Pattern matches, and the stakeholders group.                            *)
(***************************************************************************)
MaxAnchors == 4        \* merchant-banker anchors of a document

NoMatch == [matched |-> FALSE]
Match(group) == [matched |-> TRUE, group |-> group]

\* the words of brlm_pattern and registrar_pattern
brlm_keywords ==
    {<<ch.S, ch.e, ch.c, ch.u, ch.r, ch.i, ch.t, ch.i, ch.e, ch.s>>,
     <<ch.C, ch.a, ch.p, ch.i, ch.t, ch.a, ch.l>>,
     <<ch.A, ch.d, ch.v, ch.i, ch.s, ch.o, ch.r, ch.y>>}
registrar_keywords ==
    {<<ch.S, ch.e, ch.c, ch.u, ch.r, ch.i, ch.t, ch.i, ch.e, ch.s>>,
     <<ch.C, ch.a, ch.p, ch.i, ch.t, ch.a, ch.l>>,
     <<ch.C, ch.o, ch.m, ch.p, ch.u, ch.t, ch.e, ch.r, ch.s>>,
     <<ch.C, ch.o, ch.n, ch.s, ch.u, ch.l, ch.t, ch.a, ch.n, ch.t, ch.s>>}
Limited == <<ch.L, ch.i, ch.m, ch.i, ch.t, ch.e, ch.d>>
Cr == <<ch.C, ch.r>>
CrDot == <<ch.C, ch.r, ch.dot>>

\* re.IGNORECASE: t[from..] begins with word, whatever the case
WordAt(word, t, from) ==
    /\ from >= 1
    /\ from + Len(word) - 1 <= Len(t)
    /\ lower(SubSeq(t, from, from + Len(word) - 1)) = lower(word)

\* [^<]+?(?:k1|k2|...)[^<]*?Limited at the start of t and up to position
\* end: at least one character, a keyword, and later a whole "Limited"
\* that stops at end
FirmShape(keywords, t, end) ==
    /\ WordAt(Limited, t, end - Len(Limited) + 1)
    /\ \E word \in keywords, k \in 2..(end - Len(Limited)) :
           /\ k + Len(word) + Len(Limited) - 1 <= end
           /\ WordAt(word, t, k)

\* the group of \s*(...)\s* on the text of an element: the greedy \s* gives
\* back whitespace only when the group cannot start after it; with run_on
\* the group may go on after "Limited" ([^<]*? before the closing \s*)
FirmGroup(keywords, inner, run_on) ==
    LET body == rstrip(inner)
        lead == Len(body) - Len(lstrip(body))
        from(w) == SubSeq(body, w + 1, Len(body))
        shape(t) == IF run_on
                    THEN \E end \in 1..Len(t) : FirmShape(keywords, t, end)
                    ELSE FirmShape(keywords, t, Len(t))
        starts == {w \in 0..lead : shape(from(w))}
    IN  IF starts = {} THEN NoMatch
        ELSE Match(from(CHOOSE w \in starts : \A v \in starts : v <= w))

\* brlm_pattern on the <b> text of one merchant-banker anchor
brlm_match(inner) == FirmGroup(brlm_keywords, inner, FALSE)

\* registrar_pattern on the text of the ipo-registrar anchor
registrar_match(inner) ==
    FirmGroup(registrar_keywords, inner, TRUE)

\* re.findall(brlm_pattern, html_str): the groups of the anchors that match,
\* in document order
RECURSIVE findall_brlm(_)
findall_brlm(anchors) ==
    IF anchors = <<>> THEN <<>>
    ELSE LET m == brlm_match(Head(anchors))
         IN  (IF m.matched THEN <<m.group>> ELSE <<>>)
             \o findall_brlm(Tail(anchors))

\* the loop over brlm_matches without its `not in seen`
RECURSIVE unique_brlms_unseen(_, _, _)
unique_brlms_unseen(brlm_matches, seen, brlms) ==
    IF brlm_matches = <<>> THEN brlms
    ELSE LET brlm_clean == clean_text(Head(brlm_matches))
         IN  IF brlm_clean # <<>>
             THEN unique_brlms_unseen(Tail(brlm_matches),
                      seen \cup {brlm_clean}, Append(brlms, brlm_clean))
             ELSE unique_brlms_unseen(Tail(brlm_matches), seen, brlms)

\* the loop over brlm_matches: cleaned names, each once, first seen first
RECURSIVE unique_brlms(_, _, _)
unique_brlms(brlm_matches, seen, brlms) ==
    IF brlm_matches = <<>> THEN brlms
    ELSE LET brlm_clean == clean_text(Head(brlm_matches))
         IN  IF brlm_clean # <<>> /\ brlm_clean \notin seen
             THEN unique_brlms(Tail(brlm_matches),
                      seen \cup {brlm_clean}, Append(brlms, brlm_clean))
             ELSE unique_brlms(Tail(brlm_matches), seen, brlms)

\* brlms[:3]
lead_manager_cap == 3

EmptyDict == <<>>

\* IPODataExtractor._extract_stakeholders
extract_stakeholders(doc) ==
    LET brlm_matches == IF "brlm" \in DOMAIN doc
                        THEN findall_brlm(doc["brlm"]) ELSE <<>>
        brlms == unique_brlms(brlm_matches, {}, <<>>)
        registrar == IF "registrar" \in DOMAIN doc
                     THEN registrar_match(doc["registrar"]) ELSE NoMatch
    IN  (IF brlm_matches # <<>>
         THEN "lead_managers" :> SubSeq(brlms, 1, Min(lead_manager_cap, Len(brlms)))
         ELSE EmptyDict)
        @@ (IF registrar.matched
            THEN "registrar" :> clean_text(registrar.group) ELSE EmptyDict)

\* texts of merchant-banker anchors: three firms, one of them also in
\* another spacing and in another case, and a name the pattern does not
\* match
FirmA == <<ch.A, ch.sp, ch.C, ch.a, ch.p, ch.i, ch.t, ch.a, ch.l, ch.sp, ch.L,
    ch.i, ch.m, ch.i, ch.t, ch.e, ch.d>>
FirmASpaced == <<ch.sp, ch.A, ch.sp, ch.sp, ch.C, ch.a, ch.p, ch.i, ch.t, ch.a, ch.l,
    ch.sp, ch.L, ch.i, ch.m, ch.i, ch.t, ch.e, ch.d, ch.sp>>
FirmAUpper == <<ch.A, ch.sp, ch.C, ch.A, ch.P, ch.I, ch.T, ch.A, ch.L, ch.sp, ch.L,
    ch.I, ch.M, ch.I, ch.T, ch.E, ch.D>>
FirmB == <<ch.B, ch.sp, ch.S, ch.e, ch.c, ch.u, ch.r, ch.i, ch.t, ch.i, ch.e,
    ch.s, ch.sp, ch.L, ch.i, ch.m, ch.i, ch.t, ch.e, ch.d>>
FirmC == <<ch.C, ch.sp, ch.A, ch.d, ch.v, ch.i, ch.s, ch.o, ch.r, ch.y, ch.sp,
    ch.L, ch.i, ch.m, ch.i, ch.t, ch.e, ch.d>>
FirmBank == <<ch.E, ch.sp, ch.B, ch.a, ch.n, ch.k, ch.sp, ch.L, ch.i, ch.m, ch.i,
    ch.t, ch.e, ch.d>>
AnchorTexts == {FirmA, FirmASpaced, FirmAUpper, FirmB, FirmC, FirmBank}
AnchorLists == SeqsUpTo(AnchorTexts, MaxAnchors)

(***************************************************************************)
(* The helpers of the extractor, each applied once to an input: the text   *)
(* normaliser to a text, the table parser to a table, and the stakeholders *)
(* group to an extractor built on a document holding merchant-banker       *)
(* anchors only.                                                           *)
(***************************************************************************)
InitHelpers ==
    /\ companies = <<>>
    /\ bcompanies = <<>>
    /\ index_file = NoFile
    /\ pages = <<>>
    /\ call = [op |-> "init"]
    /\ prev = [op |-> "init"]
    /\ ret = ReturnNone
    /\ NoExtractor
    /\ NoTools

CleanText ==
    /\ call.op = "init"
    /\ \E text \in Texts :
        /\ call' = [op |-> "_clean_text", text |-> text]
        /\ ret' = Return(clean_text(text))
    /\ prev' = call
    /\ UNCHANGED <<companies, bcompanies, index_file, pages>>
    /\ UNCHANGED extractor_vars
    /\ UNCHANGED tool_vars

ParseSubscriptionTable ==
    /\ call.op = "init"
    /\ \E table \in Tables :
        /\ call' = [op |-> "_parse_subscription_table", table |-> table]
        /\ ret' = Return(parse_subscription_table(table))
    /\ prev' = call
    /\ UNCHANGED <<companies, bcompanies, index_file, pages>>
    /\ UNCHANGED extractor_vars
    /\ UNCHANGED tool_vars

ExtractStakeholders ==
    /\ call.op = "init"
    /\ \E anchors \in AnchorLists :
        /\ soup' = ("brlm" :> anchors)
        /\ ret' = Return(extract_stakeholders("brlm" :> anchors))
    /\ call' = [op |-> "_extract_stakeholders"]
    /\ prev' = call
    /\ UNCHANGED <<companies, bcompanies, index_file, pages, data, heap, held>>
    /\ UNCHANGED tool_vars

NextHelpers == CleanText \/ ParseSubscriptionTable \/ ExtractStakeholders

SpecHelpers == InitHelpers /\ [][NextHelpers]_vars

(***************************************************************************)
(* Properties of the helpers.                                              *)
(***************************************************************************)
\* the cleaned names brlm_pattern matched in the document, in document order
MatchedNames == clean_each(findall_brlm(soup["brlm"]))

\* the places of names where a name stands for the first time
FirstPlaces(names) ==
    {k \in 1..Len(names) : \A j \in 1..(k - 1) : names[j] # names[k]}

\* the distinct names, in the order of their first occurrence
Distinct(names) ==
    LET places == FirstPlaces(names)
    IN  [n \in 1..Cardinality(places) |->
            names[CHOOSE k \in places : Cardinality({j \in places : j < k}) = n - 1]]

\* C18: stakeholders.lead_managers, when present, repeats no name, keeps the
\* names in the order of their first occurrence in the document and has at
\* most 3 entries: it is the first three distinct cleaned names matched.
C18_LeadManagers ==
    (call.op = "_extract_stakeholders" /\ "lead_managers" \in DOMAIN ret.value) =>
        LET lm == ret.value["lead_managers"]
            distinct == Distinct(MatchedNames)
        IN  /\ \A i, j \in 1..Len(lm) : i # j => lm[i] # lm[j]
            /\ Len(lm) <= 3
            /\ Len(lm) = Min(3, Len(distinct))
            /\ \A n \in 1..Len(lm) : lm[n] = distinct[n]

\* four names matched, the second a repeat of the first: three are listed
C18_Witness ==
    /\ call.op = "_extract_stakeholders"
    /\ "lead_managers" \in DOMAIN ret.value
    /\ LET names == MatchedNames
       IN  /\ Len(names) = 4
           /\ names[2] = names[1]
           /\ Len(Distinct(names)) = 3
    /\ Len(ret.value["lead_managers"]) = 3

\* the cleaned header labels and the cleaned cells of the rows of a table
HeadersOf(table) ==
    IF "thead" \in DOMAIN table THEN clean_each(table["thead"]) ELSE <<>>
RowsWithCells(table) ==
    IF "tbody" \in DOMAIN table
    THEN SelectSeq([k \in 1..Len(table["tbody"]) |-> clean_each(table["tbody"][k])],
                   LAMBDA cells : cells # <<>>)
    ELSE <<>>

\* C19 as stated: no header cells or no body gives no rows; otherwise each
\* body row with at least one cell gives, in row order, one non-empty
\* mapping that pairs the i-th header label with the i-th cell.
C19_HeaderCellPairs ==
    call.op = "_parse_subscription_table" =>
        LET headers == HeadersOf(call.table)
            body == RowsWithCells(call.table)
            rows == ret.value
        IN  IF headers = <<>> \/ "tbody" \notin DOMAIN call.table
            THEN rows = <<>>
            ELSE /\ Len(rows) = Len(body)
                 /\ \A r \in 1..Len(rows) :
                        /\ rows[r] # EmptyDict
                        /\ \A i \in 1..Min(Len(headers), Len(body[r])) :
                               /\ headers[i] \in DOMAIN rows[r]
                               /\ rows[r][headers[i]] = body[r][i]

\* C19 amended: no header cells or no body gives no rows; otherwise each
\* body row with at least one cell gives, in row order, one non-empty
\* mapping whose keys are the header labels of the columns the row fills,
\* each label holding the cell of the last column that carries it.
C19_LastColumnOfLabel ==
    call.op = "_parse_subscription_table" =>
        LET headers == HeadersOf(call.table)
            body == RowsWithCells(call.table)
            rows == ret.value
        IN  IF headers = <<>> \/ "tbody" \notin DOMAIN call.table
            THEN rows = <<>>
            ELSE /\ Len(rows) = Len(body)
                 /\ \A r \in 1..Len(rows) :
                        LET n == Min(Len(headers), Len(body[r]))
                        IN  /\ rows[r] # EmptyDict
                            /\ DOMAIN rows[r] = {headers[i] : i \in 1..n}
                            /\ \A i \in 1..n :
                                   (\A j \in (i + 1)..n : headers[j] # headers[i])
                                       => rows[r][headers[i]] = body[r][i]

\* a table of two labels and two rows, one row shorter than the header
C19_Witness ==
    /\ call.op = "_parse_subscription_table"
    /\ Len(ret.value) = 2
    /\ Cardinality(DOMAIN ret.value[1]) = 2
    /\ Cardinality(DOMAIN ret.value[2]) = 1

\* C20: the output of _clean_text has no whitespace at either end and no
\* two whitespace characters in a row, whatever the input, placeholder
\* tokens between words included.
C20_CleanTextNormalised ==
    call.op = "_clean_text" =>
        LET out == ret.value
        IN  /\ out # <<>> => ~IsSpace(out[1]) /\ ~IsSpace(out[Len(out)])
            /\ \A k \in 1..(Len(out) - 1) : ~(IsSpace(out[k]) /\ IsSpace(out[k + 1]))

(***************************************************************************)
(* Numbers and dates in the text of a labelled place.                      *)
(***************************************************************************)
\* the longest prefix of t whose characters all satisfy the test
RECURSIVE RunLen(_, _)
RunLen(t, chars) ==
    IF t # <<>> /\ Head(t) \in chars THEN 1 + RunLen(Tail(t), chars) ELSE 0

DigitChars == {ch.n0 + d : d \in 0..9}
Drop(t, n) == SubSeq(t, n + 1, Len(t))
Take(t, n) == SubSeq(t, 1, n)

\* ([\d,]+\.?\d*) at the start of t, each part as long as it can be
number_prefix(t) ==
    LET whole == RunLen(t, DigitChars \cup {ch.comma})
        dot == IF whole < Len(t) /\ t[whole + 1] = ch.dot THEN 1 ELSE 0
        frac == RunLen(Drop(t, whole + dot), DigitChars)
    IN  IF whole = 0 THEN NoMatch ELSE Match(Take(t, whole + dot + frac))

\* \s*unit at the start of t, under re.IGNORECASE
UnitAt(unit, t) == WordAt(unit, lstrip(t), 1)

\* <currency sign>\s*([\d,]+\.?\d*)\s*unit on the text behind the sign: the
\* unit begins with a letter, so the group must be the whole run of digits,
\* commas and dots
number_before(unit, text) ==
    LET t == lstrip(text)
        m == number_prefix(t)
        run == RunLen(t, DigitChars \cup {ch.comma, ch.dot})
    IN  IF m.matched /\ Len(m.group) = run /\ UnitAt(unit, Drop(t, run))
        THEN m ELSE NoMatch

\* <currency sign>\s*([\d,]+\.?\d*) on the text behind the sign
number_after_sign(text) == number_prefix(lstrip(text))

\* <b>([\d.]+)\s*% on the text of the <b> element
percent_match(text) ==
    LET run == RunLen(text, DigitChars \cup {ch.dot})
        rest == lstrip(Drop(text, run))
    IN  IF run > 0 /\ rest # <<>> /\ Head(rest) = ch.pct
        THEN Match(Take(text, run)) ELSE NoMatch

\* int(s) of a string of digits
RECURSIVE digits_value(_)
digits_value(s) ==
    IF s = <<>> THEN 0
    ELSE 10 * digits_value(Take(s, Len(s) - 1)) + (s[Len(s)] - ch.n0)

\* str.replace(c, ''), for a single character c
remove_char(c, s) == SelectSeq(s, LAMBDA x : x # c)

RECURSIVE Pow10(_)
Pow10(n) == IF n = 0 THEN 1 ELSE 10 * Pow10(n - 1)

\* float(s) for a string of digits and dots: the value, as the exact
\* fraction, when s has a digit and at most one dot, else ValueError
float(s) ==
    LET dots == {k \in 1..Len(s) : s[k] = ch.dot}
    IN  IF Cardinality(dots) > 1 \/ Cardinality(dots) = Len(s)
        THEN Raise("ValueError")
        ELSE LET frac == IF dots = {} THEN 0
                         ELSE Len(s) - (CHOOSE k \in dots : TRUE)
             IN  Return(Rat(digits_value(remove_char(ch.dot, s)), Pow10(frac)))

\* what the code does with a match: nothing without one, else a conversion
\* that returns a value or raises
Skipped == [kind |-> "skipped"]
float_group(m) ==
    IF m.matched THEN float(remove_char(ch.comma, m.group)) ELSE Skipped
float_plain(m) == IF m.matched THEN float(m.group) ELSE Skipped
int_group(m) == IF m.matched THEN Return(digits_value(m.group)) ELSE Skipped
clean_group(m) == IF m.matched THEN Return(clean_text(m.group)) ELSE Skipped

\* ([^<]+) on the text of an element: any text but the empty one
text_match(doc, place) ==
    IF place \in DOMAIN doc /\ doc[place] # <<>> THEN Match(doc[place]) ELSE NoMatch

\* a dict built by the assignments of a group extractor, in their order: it
\* is not built when one of the conversions raises (the conversions are made
\* once: `made` is their value)
group_result(fields) ==
    LET built(made) ==
            LET set == {k \in 1..Len(made) : made[k][2].kind = "return"}
            IN  IF \E k \in 1..Len(made) : made[k][2].kind = "raise"
                THEN Raise("ValueError")
                ELSE Return([key \in {made[k][1] : k \in set} |->
                                made[CHOOSE k \in set : made[k][1] = key][2].value])
    IN  CHOOSE result \in {built(made) : made \in {fields}} : TRUE

Ordinals == {<<ch.s, ch.t>>, <<ch.n, ch.d>>, <<ch.r, ch.d>>, <<ch.t, ch.h>>}
Months ==
    {<<ch.J, ch.a, ch.n, ch.u, ch.a, ch.r, ch.y>>,
     <<ch.F, ch.e, ch.b, ch.r, ch.u, ch.a, ch.r, ch.y>>,
     <<ch.M, ch.a, ch.r, ch.c, ch.h>>,
     <<ch.A, ch.p, ch.r, ch.i, ch.l>>,
     <<ch.M, ch.a, ch.y>>,
     <<ch.J, ch.u, ch.n, ch.e>>,
     <<ch.J, ch.u, ch.l, ch.y>>,
     <<ch.A, ch.u, ch.g, ch.u, ch.s, ch.t>>,
     <<ch.S, ch.e, ch.p, ch.t, ch.e, ch.m, ch.b, ch.e, ch.r>>,
     <<ch.O, ch.c, ch.t, ch.o, ch.b, ch.e, ch.r>>,
     <<ch.N, ch.o, ch.v, ch.e, ch.m, ch.b, ch.e, ch.r>>,
     <<ch.D, ch.e, ch.c, ch.e, ch.m, ch.b, ch.e, ch.r>>}

StartsWith(word, t) == Len(word) <= Len(t) /\ Take(t, Len(word)) = word

\* the length of the match of date_regex at the start of t with the given
\* number of day digits and the given month, 0 when there is none:
\* \d{1,2}(?:st|nd|rd|th)\s+(?:January|...|December)\s+\d{4}
DateLen(t, days, month) ==
    LET gap1 == RunLen(Drop(t, days + 2), {ch.sp, ch.nl})
        month_at == days + 2 + gap1
        gap2 == RunLen(Drop(t, month_at + Len(month)), {ch.sp, ch.nl})
        year_at == month_at + Len(month) + gap2
    IN  IF /\ RunLen(t, DigitChars) >= days
           /\ \E ord \in Ordinals : StartsWith(ord, Drop(t, days))
           /\ gap1 >= 1
           /\ StartsWith(month, Drop(t, month_at))
           /\ gap2 >= 1
           /\ RunLen(Drop(t, year_at), DigitChars) >= 4
        THEN year_at + 4 ELSE 0

\* the lengths of the prefixes of t that date_regex matches
DateLengths(t) ==
    {DateLen(t, days, month) : days \in 1..2, month \in Months} \ {0}

\* re.search(date_regex, t)
search_date(t) == \E k \in 0..Len(t) : DateLengths(Drop(t, k)) # {}

(***************************************************************************)
(* The nine group extractors.  Each returns its dict, or raises what a     *)
(* conversion raised.                                                      *)
(***************************************************************************)
\* the text at a labelled place; behind a label the document lacks a
\* pattern finds what it finds in an empty text: nothing
text_at(doc, place) == IF place \in DOMAIN doc THEN doc[place] ELSE <<>>

\* re.search(r'^(.+?)\s+IPO', title.text): the shortest beginning, without
\* a line end, that whitespace and "IPO" follow
company_name_match(title) ==
    LET fits == {k \in 1..Len(title) :
                    /\ \A j \in 1..k : title[j] # ch.nl
                    /\ k < Len(title) /\ IsSpace(title[k + 1])
                    /\ StartsWith(<<ch.I, ch.P, ch.O>>, lstrip(Drop(title, k)))}
    IN  IF fits = {} THEN NoMatch
        ELSE Match(Take(title, CHOOSE k \in fits : \A j \in fits : k <= j))

\* IPODataExtractor._extract_basic_info
extract_basic_info(doc) ==
    LET match == company_name_match(text_at(doc, "title"))
        company_name ==
            IF "title" \in DOMAIN doc
            THEN Return(IF match.matched THEN strip(match.group) ELSE <<>>)
            ELSE Skipped
        ipo_category ==
            IF "category" \in DOMAIN doc
            THEN Return(clean_text(doc["category"])) ELSE Skipped
    IN  group_result(<<
            <<"company_name", company_name>>,
            <<"ipo_category", ipo_category>>,
            <<"exchange", clean_group(text_match(doc, "exchange"))>>,
            <<"issue_type", clean_group(text_match(doc, "issue_type"))>> >>)

\* the keys of date_fields; the place a key's pattern finds has its name
date_fields == <<"drhp_date", "ipo_open_date", "ipo_close_date",
                 "allotment_date", "refund_date", "listing_date">>

\* the body of the loop over date_fields
date_field(doc, field) ==
    LET match == text_match(doc, field)
        date_text == clean_text(match.group)
    IN  IF match.matched /\ search_date(date_text)
        THEN Return(date_text) ELSE Skipped

\* IPODataExtractor._extract_dates
extract_dates(doc) ==
    group_result(<<
        <<date_fields[1], date_field(doc, date_fields[1])>>,
        <<date_fields[2], date_field(doc, date_fields[2])>>,
        <<date_fields[3], date_field(doc, date_fields[3])>>,
        <<date_fields[4], date_field(doc, date_fields[4])>>,
        <<date_fields[5], date_field(doc, date_fields[5])>>,
        <<date_fields[6], date_field(doc, date_fields[6])>> >>)

\* for pattern in patterns: ... break, taking the last match
last_match(matches) ==
    LET hits == {k \in 1..Len(matches) : matches[k].matched}
    IN  IF hits = {} THEN NoMatch
        ELSE matches[CHOOSE k \in hits : \A j \in hits : j <= k]

\* for pattern in patterns: match = re.search(pattern, html_str);
\* if match: ... break
first_match(matches) ==
    LET hits == {k \in 1..Len(matches) : matches[k].matched}
    IN  IF hits = {} THEN NoMatch
        ELSE matches[CHOOSE k \in hits : \A j \in hits : k <= j]

\* <b>(sign)\s*([\d,]+\.?\d*)</b> on the text behind the sign
closed_number(text) ==
    LET m == number_after_sign(text)
    IN  IF m.matched /\ Len(m.group) = Len(lstrip(text)) THEN m ELSE NoMatch

\* .*?(\d+) on the rest of the line behind the label: the first digits
lot_match(text) ==
    LET skip == RunLen(text, {text[k] : k \in 1..Len(text)} \ (DigitChars \cup {ch.nl}))
        digits == RunLen(Drop(text, skip), DigitChars)
    IN  IF digits = 0 THEN NoMatch ELSE Match(Take(Drop(text, skip), digits))

\* the candidate patterns of the IPO size, on the places they find
size_patterns(doc) ==
    <<number_before(Cr, text_at(doc, "size_is")),
      number_before(Cr, text_at(doc, "size_of")),
      number_before(Cr, text_at(doc, "size_label"))>>

\* the candidate patterns of the issue price
price_patterns(doc) ==
    <<number_after_sign(text_at(doc, "price_label")),
      closed_number(text_at(doc, "price_of"))>>

\* IPODataExtractor._extract_pricing
extract_pricing(doc) ==
    group_result(<<
        <<"ipo_size_cr", float_group(first_match(size_patterns(doc)))>>,
        <<"issue_price_rs", float_group(first_match(price_patterns(doc)))>>,
        <<"price_band_upper_rs",
          float_group(number_after_sign(text_at(doc, "price_band")))>>,
        <<"face_value_rs",
          float_group(number_after_sign(text_at(doc, "face_value")))>>,
        <<"lot_size", int_group(lot_match(text_at(doc, "lot_size")))>> >>)

\* the first of the PE fragments on which the pattern matches; a fragment
\* is the text of a <b> element behind "PE multiple :" or "PE Ratio :", and
\* is tight when it reads "PE Ratio:<b>"
RECURSIVE first_fragment(_, _)
first_fragment(fragments, tight_only) ==
    IF fragments = <<>> THEN NoMatch
    ELSE LET text == Head(fragments).text
             m == number_prefix(text)
             rest == Drop(text, Len(m.group))
             hit == IF tight_only
                    THEN /\ Head(fragments).tight
                         /\ m.matched
                         /\ lower(rest) \in {<<>>, <<ch.x>>}
                    ELSE m.matched
         IN  IF hit THEN m ELSE first_fragment(Tail(fragments), tight_only)

\* the candidate patterns of the PE ratio
pe_patterns(doc) ==
    <<first_fragment(text_at(doc, "pe"), FALSE),
      first_fragment(text_at(doc, "pe"), TRUE)>>

\* IPODataExtractor._extract_financial_info
extract_financial_info(doc) ==
    group_result(<<
        <<"market_cap_cr",
          float_group(number_before(CrDot, text_at(doc, "market_cap")))>>,
        <<"pe_ratio", float_group(first_match(pe_patterns(doc)))>>,
        <<"revenue_annualised_cr",
          float_group(number_before(CrDot, text_at(doc, "revenue")))>>,
        <<"pat_annualised_cr",
          float_group(number_before(CrDot, text_at(doc, "pat")))>>,
        <<"pre_issue_promoter_holding_percent",
          float_plain(percent_match(text_at(doc, "pre_holding")))>>,
        <<"post_issue_promoter_holding_percent",
          float_plain(percent_match(text_at(doc, "post_holding")))>> >>)

\* the sector or the city: the link of its own kind if the document has
\* one, else the link of the sentence that names it
link_or_fallback(doc, link, fallback) ==
    IF text_match(doc, link).matched
    THEN clean_group(text_match(doc, link))
    ELSE clean_group(text_match(doc, fallback))

\* str.strip('"')
RECURSIVE strip_quotes(_)
strip_quotes(s) ==
    IF s # <<>> /\ Head(s) = ch.quote THEN strip_quotes(Tail(s))
    ELSE IF s # <<>> /\ s[Len(s)] = ch.quote THEN strip_quotes(Take(s, Len(s) - 1))
    ELSE s

\* desc_text[:500]
description_cap == 500

\* IPODataExtractor._extract_company_info
extract_company_info(doc) ==
    LET description ==
            IF "description" \in DOMAIN doc
            THEN LET desc_text == strip_quotes(clean_text(doc["description"]))
                 IN  Return(Take(desc_text, Min(description_cap, Len(desc_text))))
            ELSE Skipped
    IN  group_result(<<
            <<"sector", link_or_fallback(doc, "sector_link", "sector_caters")>>,
            <<"city", link_or_fallback(doc, "city_link", "city_based")>>,
            <<"sub_sector", clean_group(text_match(doc, "sub_sector"))>>,
            <<"description", description>> >>)

\* re.search(r'([\d.]+)\s*times', sub_text, re.IGNORECASE): the first run
\* of digits and dots that whitespace and "times" follow
RECURSIVE times_match(_)
times_match(sub_text) ==
    LET run == RunLen(sub_text, DigitChars \cup {ch.dot})
        times == <<ch.t, ch.i, ch.m, ch.e, ch.s>>
    IN  IF sub_text = <<>> THEN NoMatch
        ELSE IF run = 0 THEN times_match(Tail(sub_text))
        ELSE IF UnitAt(times, Drop(sub_text, run)) THEN Match(Take(sub_text, run))
        ELSE times_match(Drop(sub_text, run))

\* IPODataExtractor._extract_subscription
extract_subscription(doc) ==
    LET sub_match == text_match(doc, "subscription")
        sub_text == clean_text(sub_match.group)
        told == sub_match.matched /\ sub_text # <<>> /\ sub_text # placeholder
        times_found == times_match(sub_text)
    IN  group_result(<<
            <<"total_subscription_times",
              IF told /\ times_found.matched
              THEN float_plain(times_found) ELSE Skipped>>,
            <<"total_subscription_raw",
              IF told /\ ~times_found.matched THEN Return(sub_text) ELSE Skipped>>,
            <<"category_wise",
              IF "table" \in DOMAIN doc
              THEN Return(parse_subscription_table(doc["table"])) ELSE Skipped>> >>)

\* IPODataExtractor._extract_issue_composition
extract_issue_composition(doc) ==
    group_result(<<
        <<"fresh_issue_cr",
          float_group(number_before(Cr, text_at(doc, "fresh_issue")))>>,
        <<"offer_for_sale_cr",
          float_group(number_before(Cr, text_at(doc, "offer_for_sale")))>> >>)

\* r'.*RHP\.pdf|.*Red_Herring.*\.pdf' under re.IGNORECASE, searched in href
rhp_href(href) ==
    LET RhpPdf == <<ch.R, ch.H, ch.P, ch.dot, ch.p, ch.d, ch.f>>
        RedHerring == <<ch.R, ch.e, ch.d, ch.us, ch.H, ch.e, ch.r, ch.r, ch.i, ch.n, ch.g>>
        DotPdf == <<ch.dot, ch.p, ch.d, ch.f>>
    IN  \/ Contains(lower(RhpPdf), lower(href))
        \/ \E k \in 1..Len(href) :
               /\ WordAt(RedHerring, href, k)
               /\ Contains(lower(DotPdf), lower(Drop(href, k + Len(RedHerring) - 1)))

\* r'.*DRHP\.pdf' under re.IGNORECASE, searched in href
drhp_href(href) ==
    LET DrhpPdf == <<ch.D, ch.R, ch.H, ch.P, ch.dot, ch.p, ch.d, ch.f>>
    IN  Contains(lower(DrhpPdf), lower(href))

\* soup.find('a', href=pattern) with its `.get('href')` test: the href of
\* the first anchor of the kind wanted, the document being given by the
\* hrefs of its anchors in their order
RECURSIVE find_href(_, _)
find_href(hrefs, drhp) ==
    IF hrefs = <<>> THEN Skipped
    ELSE IF (IF drhp THEN drhp_href(Head(hrefs)) ELSE rhp_href(Head(hrefs)))
         THEN (IF Head(hrefs) # <<>> THEN Return(Head(hrefs)) ELSE Skipped)
    ELSE find_href(Tail(hrefs), drhp)

\* IPODataExtractor._extract_documents
extract_documents(doc) ==
    group_result(<<
        <<"rhp_url", find_href(text_at(doc, "hrefs"), FALSE)>>,
        <<"drhp_url", find_href(text_at(doc, "hrefs"), TRUE)>> >>)

\* the keys of the record, in the order extract_all fills them
GroupNames == <<"basic_info", "dates", "pricing", "financial_info",
                "stakeholders", "company_info", "subscription",
                "issue_composition", "documents">>

\* what the k-th group extractor gives on the document
extract_group(doc, k) ==
    CASE k = 1 -> extract_basic_info(doc)
      [] k = 2 -> extract_dates(doc)
      [] k = 3 -> extract_pricing(doc)
      [] k = 4 -> extract_financial_info(doc)
      [] k = 5 -> Return(extract_stakeholders(doc))
      [] k = 6 -> extract_company_info(doc)
      [] k = 7 -> extract_subscription(doc)
      [] k = 8 -> extract_issue_composition(doc)
      [] k = 9 -> extract_documents(doc)

\* what the nine group extractors give, in the order of GroupNames
all_groups(doc) == [k \in 1..Len(GroupNames) |-> extract_group(doc, k)]

\* the dict literal of extract_all on what the extractors gave: nothing
\* catches what one of them raised
data_of(groups) ==
    IF \E k \in 1..Len(GroupNames) : groups[k].kind = "raise"
    THEN Raise("ValueError")
    ELSE Return([name \in {GroupNames[k] : k \in 1..Len(GroupNames)} |->
             groups[CHOOSE k \in 1..Len(GroupNames) : GroupNames[k] = name].value])

\* extract_all leaving out the groups that came back empty
extract_all_nonempty(doc, self_data) ==
    LET data_nonempty(groups) ==
            LET filled == {k \in 1..Len(GroupNames) : groups[k].value # EmptyDict}
            IN  IF \E k \in 1..Len(GroupNames) : groups[k].kind = "raise"
                THEN Raise("ValueError")
                ELSE Return([name \in {GroupNames[k] : k \in filled} |->
                         groups[CHOOSE k \in filled : GroupNames[k] = name].value])
    IN  CHOOSE result \in {data_nonempty(groups) : groups \in {all_groups(doc)}} : TRUE

\* extract_all filling only the groups self.data does not hold yet
extract_all_once(doc, self_data) ==
    LET data_once(groups) ==
            IF \E k \in 1..Len(GroupNames) : groups[k].kind = "raise"
            THEN Raise("ValueError")
            ELSE Return([name \in {GroupNames[k] : k \in 1..Len(GroupNames)} |->
                     IF name \in DOMAIN self_data THEN EmptyDict
                     ELSE groups[CHOOSE k \in 1..Len(GroupNames) :
                                     GroupNames[k] = name].value])
    IN  CHOOSE result \in {data_once(groups) : groups \in {all_groups(doc)}} : TRUE

\* IPODataExtractor.extract_all: the dict literal calls the nine extractors
\* in their order, each once; the dict self.data held before plays no part
extract_all(doc, self_data) ==
    CHOOSE result \in {data_of(groups) : groups \in {all_groups(doc)}} : TRUE

(***************************************************************************)
(* Documents.                                                              *)
(***************************************************************************)
MaxCalls == 2          \* extract_all calls made on a document
MaxExtractors == 2     \* extractors built on a document

TitleIpo == <<ch.A, ch.b, ch.b, ch.sp, ch.P, ch.h, ch.a, ch.r, ch.m, ch.a, ch.sp,
        ch.I, ch.P, ch.O, ch.sp, ch.D, ch.e, ch.t, ch.a, ch.i, ch.l, ch.s>>
TitleNoIpo == <<ch.A, ch.b, ch.b, ch.sp, ch.P, ch.h, ch.a, ch.r, ch.m, ch.a>>
TitleLowerIpo == <<ch.A, ch.b, ch.b, ch.sp, ch.i, ch.p, ch.o>>
Nse == <<ch.sp, ch.N, ch.S, ch.E, ch.nl>>
Pharma == <<ch.P, ch.h, ch.a, ch.r, ch.m, ch.a>>
Chemicals == <<ch.C, ch.h, ch.e, ch.m, ch.i, ch.c, ch.a, ch.l, ch.s>>
Mumbai == <<ch.M, ch.u, ch.m, ch.b, ch.a, ch.i>>
Pune == <<ch.P, ch.u, ch.n, ch.e>>
Quoted == <<ch.quote, ch.A, ch.b, ch.b, ch.sp, ch.m, ch.a, ch.k, ch.e, ch.s, ch.sp,
        ch.lb, ch.q1, ch.q2, ch.q3, ch.rb, ch.sp, ch.p, ch.h, ch.a, ch.r, ch.m,
        ch.a, ch.dot, ch.quote>>
DateGood == <<ch.n2, ch.n1, ch.s, ch.t, ch.sp, ch.N, ch.o, ch.v, ch.e, ch.m, ch.b,
        ch.e, ch.r, ch.sp, ch.n2, ch.n0, ch.n2, ch.n5>>
DateOther == <<ch.n3, ch.r, ch.d, ch.sp, ch.M, ch.a, ch.y, ch.sp, ch.n2, ch.n0, ch.n2,
        ch.n5>>
DateWrapped == <<ch.b, ch.y, ch.sp, ch.n1, ch.s, ch.t, ch.sp, ch.M, ch.a, ch.y, ch.sp,
        ch.n2, ch.n0, ch.n2, ch.n5>>
DateNoOrdinal == <<ch.n1, ch.sp, ch.M, ch.a, ch.y, ch.sp, ch.n2, ch.n0, ch.n2, ch.n5>>
Amount == <<ch.sp, ch.n1, ch.comma, ch.n2, ch.n5, ch.n0, ch.dot, ch.n5, ch.n0,
        ch.sp, ch.C, ch.r, ch.dot>>
AmountOther == <<ch.n7, ch.n5, ch.sp, ch.c, ch.r, ch.dot>>
AmountThird == <<ch.n8, ch.dot, ch.n5, ch.C, ch.r, ch.dot>>
AmountNoUnit == <<ch.n1, ch.comma, ch.n2, ch.n5, ch.n0, ch.dot, ch.n5, ch.n0>>
CommaCr == <<ch.comma, ch.sp, ch.C, ch.r, ch.dot>>
Price == <<ch.n9, ch.n5, ch.dot, ch.n5>>
PriceOther == <<ch.n9, ch.n0>>
PriceOpen == <<ch.n9, ch.n0, ch.sp, ch.o, ch.r, ch.sp, ch.s, ch.o>>
Comma == <<ch.comma>>
LotGood == <<ch.sp, ch.i, ch.s, ch.sp, ch.n1, ch.n0, ch.n0, ch.sp, ch.s, ch.h, ch.a,
        ch.r, ch.e, ch.s>>
Tba == <<ch.T, ch.B, ch.A>>
Percent == <<ch.n7, ch.n4, ch.dot, ch.n5, ch.sp, ch.pct>>
DotsPercent == <<ch.dot, ch.dot, ch.dot, ch.pct>>
TimesGood == <<ch.n2, ch.dot, ch.n5, ch.sp, ch.T, ch.i, ch.m, ch.e, ch.s>>
TimesDots == <<ch.n1, ch.dot, ch.dot, ch.n2, ch.sp, ch.t, ch.i, ch.m, ch.e, ch.s>>
PeSpaced == [tight |-> FALSE, text |-> <<ch.n1, ch.n2, ch.dot, ch.n5>>]
PeTight == [tight |-> TRUE, text |-> <<ch.n1, ch.n4, ch.x>>]
PeSpacedTba == [tight |-> FALSE, text |-> Tba]
PeTightComma == [tight |-> TRUE, text |-> <<ch.comma, ch.x>>]
HrefRhp == <<ch.A, ch.b, ch.b, ch.us, ch.R, ch.H, ch.P, ch.dot, ch.p, ch.d, ch.f>>
HrefDrhp == <<ch.A, ch.b, ch.b, ch.us, ch.D, ch.R, ch.H, ch.P, ch.dot, ch.p, ch.d,
        ch.f>>
HrefRedHerring == <<ch.r, ch.e, ch.d, ch.us, ch.h, ch.e, ch.r, ch.r, ch.i, ch.n, ch.g,
        ch.us, ch.a, ch.b, ch.b, ch.dot, ch.p, ch.d, ch.f>>
HrefOther == <<ch.a, ch.b, ch.b, ch.dot, ch.p, ch.d, ch.f>>
TableGood == ("thead" :> <<<<ch.Q>>, <<ch.N>>>>)
             @@ ("tbody" :> << <<<<ch.n1>>, <<ch.n2>>>> >>)

\* a document with every labelled place, every candidate of a field with a
\* value of its own
FullDoc ==
    [title |-> TitleIpo, category |-> <<ch.S, ch.M, ch.E>>, exchange |-> Nse,
     issue_type |-> <<ch.B, ch.B>>,
     drhp_date |-> DateGood, ipo_open_date |-> DateOther,
     ipo_close_date |-> DateGood, allotment_date |-> DateGood,
     refund_date |-> DateGood, listing_date |-> DateGood,
     size_is |-> Amount, size_of |-> AmountOther, size_label |-> AmountThird,
     price_label |-> Price, price_of |-> PriceOther,
     price_band |-> Price, face_value |-> PriceOther, lot_size |-> LotGood,
     market_cap |-> Amount, pe |-> <<PeSpaced, PeTight>>,
     revenue |-> AmountOther, pat |-> AmountThird,
     pre_holding |-> Percent, post_holding |-> Percent,
     brlm |-> <<FirmA, FirmASpaced, FirmB>>, registrar |-> FirmC \o <<ch.sp>>,
     sector_link |-> Pharma, sector_caters |-> Chemicals,
     city_link |-> Mumbai, city_based |-> Pune,
     sub_sector |-> Chemicals, description |-> Quoted,
     subscription |-> TimesGood, table |-> TableGood,
     fresh_issue |-> Amount, offer_for_sale |-> AmountOther,
     hrefs |-> <<HrefOther, HrefDrhp, HrefRhp>>]

\* a document with no labelled place at all
EmptyDoc == <<>>

\* the document with the text at the place put or replaced
Put(doc, place, text) == (place :> text) @@ doc

\* the document without the places
Without(doc, places) == [p \in (DOMAIN doc) \ places |-> doc[p]]

\* texts to stand at single places: well-formed ones, ones the pattern of
\* the place does not match, and ones it matches without a convertible
\* value
TextPlaces ==
    ({"title"} \X {TitleIpo, TitleNoIpo, TitleLowerIpo, <<>>})
    \cup ({"category", "exchange", "sub_sector", "sector_link", "sector_caters",
           "city_link", "city_based", "description"} \X {Pharma, placeholder})
    \cup ({date_fields[k] : k \in 1..Len(date_fields)}
          \X {DateGood, placeholder, DateWrapped, DateNoOrdinal})
    \cup ({"size_is", "size_of", "size_label", "market_cap", "revenue", "pat",
           "fresh_issue", "offer_for_sale"} \X {AmountThird, AmountNoUnit, CommaCr})
    \cup ({"price_label", "price_of", "price_band", "face_value"}
          \X {Price, PriceOpen, Comma})
    \cup ({"lot_size"} \X {LotGood, Tba})
    \cup ({"pre_holding", "post_holding"} \X {Percent, DotsPercent, Tba})
    \cup ({"registrar"} \X {FirmB, FirmBank})
    \cup ({"subscription"} \X {TimesGood, TimesDots, Tba, placeholder})

\* the same for the places that hold a list
ListPlaces ==
    ({"pe"} \X {<<PeSpaced>>, <<PeTight>>, <<PeSpacedTba, PeTight>>,
                <<PeTightComma>>, <<PeSpacedTba>>})
    \cup ({"brlm"} \X {<<FirmB, FirmA, FirmB>>, <<FirmBank>>})
    \cup ({"hrefs"} \X {<<HrefRhp>>, <<HrefDrhp, HrefRhp>>, <<HrefRedHerring>>,
                        <<HrefOther>>})

\* the documents: the empty one, the full one, and each of the two with
\* one place set to one of the texts
Documents ==
    {EmptyDoc, FullDoc}
    \cup {Put(doc, v[1], v[2]) : doc \in {EmptyDoc, FullDoc}, v \in TextPlaces}
    \cup {Put(doc, v[1], v[2]) : doc \in {EmptyDoc, FullDoc}, v \in ListPlaces}
    \cup {Put(EmptyDoc, "table", TableGood)}

(***************************************************************************)
(* An extractor on a document: extract_all is called on it, and further    *)
(* extractors are built on the same document.  self.data and the value     *)
(* extract_all returns are references to one dict object of the heap.      *)
(***************************************************************************)
InitExtract ==
    /\ companies = <<>>
    /\ bcompanies = <<>>
    /\ index_file = NoFile
    /\ pages = <<>>
    /\ soup \in Documents
    /\ heap = <<EmptyDict>>
    /\ data = 1
    /\ held = <<>>
    /\ call = [op |-> "__init__", extractor |-> 1]
    /\ prev = [op |-> "init"]
    /\ ret = ReturnNone
    /\ NoTools

\* IPODataExtractor(html_content) on the document again
Construct ==
    /\ call.extractor < MaxExtractors
    /\ heap' = Append(heap, EmptyDict)
    /\ data' = Len(heap) + 1
    /\ call' = [op |-> "__init__", extractor |-> call.extractor + 1]
    /\ prev' = call
    /\ ret' = ReturnNone
    /\ UNCHANGED <<companies, bcompanies, index_file, pages, soup, held>>
    /\ UNCHANGED tool_vars

\* extractor.extract_all(): the new dict is bound to self.data and returned
ExtractAll ==
    /\ Len(held) < MaxCalls
    /\ \E result \in {extract_all(soup, heap[data])} :
           IF result.kind = "raise"
           THEN /\ ret' = result
                /\ held' = Append(held, [extractor |-> call.extractor,
                                         kind |-> "raise"])
                /\ UNCHANGED <<heap, data>>
           ELSE /\ heap' = Append(heap, result.value)
                /\ data' = Len(heap) + 1
                /\ ret' = Return(Len(heap) + 1)
                /\ held' = Append(held, [extractor |-> call.extractor,
                                         kind |-> "return",
                                         ref |-> Len(heap) + 1,
                                         seen |-> result.value])
    /\ call' = [op |-> "extract_all", extractor |-> call.extractor]
    /\ prev' = call
    /\ UNCHANGED <<companies, bcompanies, index_file, pages, soup>>
    /\ UNCHANGED tool_vars

NextExtract == Construct \/ ExtractAll

SpecExtract == InitExtract /\ [][NextExtract]_vars

(***************************************************************************)
(* Properties of IPODataExtractor.extract_all.                             *)
(***************************************************************************)
ExtractReturned == call.op = "extract_all" /\ ret.kind = "return"

\* the record the last extract_all returned
Record == heap[ret.value]

\* the places each group extractor reads, in the order of GroupNames
PlacesOf ==
    <<{"title", "category", "exchange", "issue_type"},
      {date_fields[k] : k \in 1..Len(date_fields)},
      {"size_is", "size_of", "size_label", "price_label", "price_of",
       "price_band", "face_value", "lot_size"},
      {"market_cap", "pe", "revenue", "pat", "pre_holding", "post_holding"},
      {"brlm", "registrar"},
      {"sector_link", "sector_caters", "city_link", "city_based",
       "sub_sector", "description"},
      {"subscription", "table"},
      {"fresh_issue", "offer_for_sale"},
      {"hrefs"}>>

Groups == 1..Len(GroupNames)

\* C11: extract_all never raises, however malformed the labelled values of
\* the document are: every call returns a record.
C11_NeverRaises == call.op = "extract_all" => ret.kind = "return"

\* C12: the group extractors are isolated: when one of the nine fails on the
\* document, extract_all still returns a record, and its other eight groups
\* are what they are for the document without the markup of the failing
\* group.
C12_GroupsIsolated ==
    call.op = "extract_all" =>
        \A k \in Groups :
            extract_group(soup, k).kind = "raise" =>
                /\ ret.kind = "return"
                /\ \A j \in Groups \ {k} :
                       Record[GroupNames[j]]
                           = extract_group(Without(soup, PlacesOf[k]), j).value

\* C13: every record extract_all returns has exactly the nine group keys,
\* each mapped to a mapping (its keys are names), which may be empty; so it
\* is for the empty document.
C13_NineGroups ==
    ExtractReturned =>
        /\ DOMAIN Record = {"basic_info", "dates", "pricing", "financial_info",
                            "stakeholders", "company_info", "subscription",
                            "issue_composition", "documents"}
        /\ \A group \in DOMAIN Record : DOMAIN Record[group] \subseteq STRING

\* the empty document gives nine empty groups
C13_Witness ==
    /\ ExtractReturned
    /\ soup = EmptyDoc
    /\ Cardinality(DOMAIN Record) = 9
    /\ \A group \in DOMAIN Record : Record[group] = EmptyDict

\* the whole of t is a date: ordinal day, month name, four-digit year
IsDate(t) == Len(t) \in DateLengths(t)

\* C14: a value is in the dates group only if it has the shape of a calendar
\* date (ordinal day, month name, four-digit year): for each of the six
\* date fields, a labelled value of another shape (the placeholder token, a
\* date with text around it) is not in the output, and what is in the
\* output is the labelled value, not a default.
C14_OnlyDates ==
    ExtractReturned =>
        \A k \in 1..Len(date_fields) :
            date_fields[k] \in DOMAIN Record["dates"] =>
                /\ date_fields[k] \in DOMAIN soup
                /\ Record["dates"][date_fields[k]] = clean_text(soup[date_fields[k]])
                /\ IsDate(Record["dates"][date_fields[k]])

\* the field of the group holds the value of the earliest candidate that
\* matches, and is absent when none matches; value_of gives the value the
\* field takes from a matched group
Matches(matches) == {k \in 1..Len(matches) : matches[k].matched}
Earliest(matches) == CHOOSE k \in Matches(matches) : \A j \in Matches(matches) : k <= j
NumberOf(group) == float(remove_char(ch.comma, group)).value
HoldsEarliestNumber(group, field, matches) ==
    IF Matches(matches) = {} THEN field \notin DOMAIN group
    ELSE /\ field \in DOMAIN group
         /\ group[field] = NumberOf(matches[Earliest(matches)].group)
HoldsEarliestText(group, field, matches) ==
    IF Matches(matches) = {} THEN field \notin DOMAIN group
    ELSE /\ field \in DOMAIN group
         /\ group[field] = clean_text(matches[Earliest(matches)].group)

\* C15: first match wins: each of IPO size, issue price, PE ratio, sector
\* and city holds the value of the earliest of its candidate patterns, in
\* priority order, that matches the document, whatever the later
\* candidates match; a later candidate counts only if all earlier ones
\* fail to match, and the field is one candidate's value.
C15_FirstMatchWins ==
    ExtractReturned =>
        /\ HoldsEarliestNumber(Record["pricing"], "ipo_size_cr", size_patterns(soup))
        /\ HoldsEarliestNumber(Record["pricing"], "issue_price_rs", price_patterns(soup))
        /\ HoldsEarliestNumber(Record["financial_info"], "pe_ratio", pe_patterns(soup))
        /\ HoldsEarliestText(Record["company_info"], "sector",
               <<text_match(soup, "sector_link"), text_match(soup, "sector_caters")>>)
        /\ HoldsEarliestText(Record["company_info"], "city",
               <<text_match(soup, "city_link"), text_match(soup, "city_based")>>)

\* all three candidates of the IPO size match, each with another number,
\* and both candidates of the sector, each with another text
C15_Witness ==
    /\ ExtractReturned
    /\ Matches(size_patterns(soup)) = {1, 2, 3}
    /\ Record["pricing"]["ipo_size_cr"] = NumberOf(size_patterns(soup)[1].group)
    /\ Record["pricing"]["ipo_size_cr"] # NumberOf(size_patterns(soup)[2].group)
    /\ Record["pricing"]["ipo_size_cr"] # NumberOf(size_patterns(soup)[3].group)
    /\ text_match(soup, "sector_caters").matched
    /\ Record["company_info"]["sector"] = clean_text(soup["sector_link"])
    /\ Record["company_info"]["sector"] # clean_text(soup["sector_caters"])

\* C16: extract_all is idempotent: the calls made on one extractor, and on
\* the extractors built on one document, return identical records, and a
\* record that was returned is not changed by a later call.
C16_Idempotent ==
    \A i, j \in 1..Len(held) :
        (held[i].kind = "return" /\ held[j].kind = "return") =>
            /\ heap[held[i].ref] = heap[held[j].ref]
            /\ heap[held[i].ref] = held[i].seen

\* two calls on one extractor returned a record that is not empty
C16_Witness ==
    /\ Len(held) = 2
    /\ held[1].kind = "return" /\ held[2].kind = "return"
    /\ held[1].extractor = held[2].extractor
    /\ held[1].ref # held[2].ref
    /\ held[1].seen["pricing"] # EmptyDict

\* C17: a field is in the record only when it was recovered: for a document
\* lacking a labelled value (a title without the "IPO" marker, anchors whose
\* text cleans to nothing) the field's key is absent, no field being an
\* empty string or an empty list, and the fields of the other groups are
\* not touched by what stands at a place of one group.
C17_AbsentWhenNotRecovered ==
    ExtractReturned =>
        /\ \A group \in DOMAIN Record :
               \A field \in DOMAIN Record[group] : Record[group][field] # <<>>
        /\ \A k \in Groups : \A place \in PlacesOf[k] \cap DOMAIN soup :
               \A j \in Groups \ {k} :
                   Record[GroupNames[j]]
                       = extract_group(Without(soup, {place}), j).value

(***************************************************************************)
(* C24: the company collection of the search engine is read-only after     *)
(* load.  After any sequence of search, search_by_id, search_by_slug,      *)
(* search_by_category and get_all_categories calls the collection is the   *)
(* one the constructor loaded from the index file (same companies, same    *)
(* order, same fields), and no stored company has a match_score field:     *)
(* the scores are on the copies that search returns.                       *)
(***************************************************************************)
C24_CollectionReadOnly ==
    /\ companies = engine_init(index_file)
    /\ \A k \in 1..Len(companies) : "match_score" \notin DOMAIN companies[k]

\* a search has returned scored copies of stored companies
C24_Witness ==
    /\ call.op = "search"
    /\ ret.kind = "return"
    /\ ret.value # <<>>
    /\ \A k \in 1..Len(ret.value) :
          /\ "match_score" \in DOMAIN ret.value[k]
          /\ \E j \in 1..Len(companies) :
                companies[j] = [key \in DOMAIN companies[j] |-> ret.value[k][key]]

(***************************************************************************)
(* Properties of the subscription group.                                   *)
(***************************************************************************)
\* text holds a "<number> times" figure: digits with at most one dot among
\* them, then optional whitespace, then the word "times" in any case
HasTimesFigure(text) ==
    \E i \in 1..Len(text) : \E j \in i..Len(text) :
        LET literal == SubSeq(text, i, j)
        IN  /\ \A k \in 1..Len(literal) : literal[k] \in DigitChars \cup {ch.dot}
            /\ \E k \in 1..Len(literal) : literal[k] \in DigitChars
            /\ Cardinality({k \in 1..Len(literal) : literal[k] = ch.dot}) <= 1
            /\ UnitAt(<<ch.t, ch.i, ch.m, ch.e, ch.s>>, Drop(text, j))

\* C25: the subscription group records the overall figure under at most one
\* key: total_subscription_times, a float, when the cleaned labelled value
\* holds a "<number> times" figure; otherwise total_subscription_raw with
\* the non-empty cleaned text; neither key when the labelled value is only
\* the placeholder token.
C25_OneSubscriptionKey ==
    call.op = "extract_all" /\ "subscription" \in DOMAIN soup =>
        LET text == clean_text(soup["subscription"])
            group == extract_subscription(soup)
            keys == DOMAIN group.value
        IN  /\ group.kind = "return"
            /\ ret.kind = "return" => Record["subscription"] = group.value
            /\ IF HasTimesFigure(text)
               THEN /\ "total_subscription_times" \in keys
                    /\ "total_subscription_raw" \notin keys
                    /\ LET times == group.value["total_subscription_times"]
                       IN  times = Rat(times[1], times[2])
               ELSE IF text # <<>> /\ soup["subscription"] # placeholder
               THEN /\ "total_subscription_raw" \in keys
                    /\ "total_subscription_times" \notin keys
                    /\ group.value["total_subscription_raw"] = text
               ELSE keys \cap {"total_subscription_times",
                               "total_subscription_raw"} = {}

\* the same over the documents whose figure float() accepts
C25_OneKeyWhenParsed ==
    call.op = "extract_all" /\ "subscription" \in DOMAIN soup
        /\ soup["subscription"] # TimesDots => C25_OneSubscriptionKey

(***************************************************************************)
(* _clean_text and _extract_currency_value on an argument that may be      *)
(* None.                                                                   *)
(***************************************************************************)
MaxParts == 3          \* pieces of a text given to the two helpers

PyNone == [kind |-> "none"]
Str(text) == [kind |-> "str", value |-> text]
Float(x) == [kind |-> "float", value |-> x]

\* _clean_text(text): `if not text: return ""` takes None and ''
clean_text_of(arg) ==
    IF arg.kind = "none" THEN <<>> ELSE clean_text(arg.value)

\* re.search(r'[<sign>Rs.]*\s*([\d,]+\.?\d*)\s*(Cr\.?|Crore|Lakh|Lakhs)?', text):
\* group 1 needs a digit or a comma, and neither is in the class before it
\* nor whitespace, so the leftmost match has group 1 begin at the first digit
\* or comma of the text, each part as long as it can be; the unit is tried
\* behind the whitespace that follows, the alternatives in their order and
\* with their case, so "Crore" gives "Cr" and "Lakhs" gives "Lakh"
currency_match(text) ==
    LET starts == {k \in 1..Len(text) : text[k] \in DigitChars \cup {ch.comma}}
        from == CHOOSE k \in starts : \A j \in starts : k <= j
        number == number_prefix(Drop(text, from - 1)).group
        rest == lstrip(Drop(text, from - 1 + Len(number)))
        Lakh == <<ch.L, ch.a, ch.k, ch.h>>
    IN  IF starts = {} THEN NoMatch
        ELSE [matched |-> TRUE, group |-> number,
              unit |-> IF StartsWith(CrDot, rest) THEN CrDot
                       ELSE IF StartsWith(Cr, rest) THEN Cr
                       ELSE IF StartsWith(Lakh, rest) THEN Lakh
                       ELSE <<>>]

\* the body of _extract_currency_value behind its guard: float() is called
\* first, on group 1 without its commas unless that is empty
currency_result(text) ==
    LET m == currency_match(text)
        value_str == remove_char(ch.comma, m.group)
        made == IF value_str = <<>> THEN Return(PyNone) ELSE float(value_str)
    IN  IF ~m.matched THEN Return([raw |-> clean_text(text)])
        ELSE IF made.kind = "raise" THEN made
        ELSE Return([value |-> IF value_str = <<>> THEN PyNone
                               ELSE Float(made.value),
                     unit |-> remove_char(ch.dot, m.unit),
                     currency |-> <<ch.q1, ch.c2, ch.c3>>,
                     raw |-> clean_text(text)])

\* _extract_currency_value without `if not text: return None`: re.search
\* raises TypeError on None
extract_currency_value_unguarded(arg) ==
    IF arg.kind = "none" THEN Raise("TypeError") ELSE currency_result(arg.value)

\* IPODataExtractor._extract_currency_value
extract_currency_value(arg) ==
    IF arg.kind = "none" \/ arg.value = <<>> THEN ReturnNone
    ELSE currency_result(arg.value)

\* the pieces of the texts: a space, a letter, the two halves of the
\* placeholder token and the token, a digit, the separators, and words the pattern knows
CurrencyTokens ==
    {<<ch.sp>>, <<ch.a>>, <<ch.lb, ch.q1, ch.q2>>, <<ch.q3, ch.rb>>,
     placeholder, <<ch.n5>>, <<ch.comma>>, <<ch.dot>>, Cr,
     <<ch.C, ch.r, ch.o, ch.r, ch.e>>, <<ch.L, ch.a, ch.k, ch.h, ch.s>>,
     <<ch.R, ch.s>>}

CurrencyTexts ==
    UNION {{Concat(t) : t \in [1..n -> CurrencyTokens]} : n \in 0..MaxParts}

OptionalTexts == {PyNone} \cup {Str(text) : text \in CurrencyTexts}

InitCurrency ==
    /\ companies = <<>>
    /\ bcompanies = <<>>
    /\ index_file = NoFile
    /\ pages = <<>>
    /\ call = [op |-> "init"]
    /\ prev = [op |-> "init"]
    /\ ret = ReturnNone
    /\ NoExtractor
    /\ NoTools

\* self._clean_text(text)
CleanTextOptional ==
    /\ call.op = "init"
    /\ \E text \in OptionalTexts :
        /\ call' = [op |-> "_clean_text", text |-> text]
        /\ ret' = Return(clean_text_of(text))
    /\ prev' = call
    /\ UNCHANGED <<companies, bcompanies, index_file, pages>>
    /\ UNCHANGED extractor_vars
    /\ UNCHANGED tool_vars

\* self._extract_currency_value(text)
ExtractCurrencyValue ==
    /\ call.op = "init"
    /\ \E text \in OptionalTexts :
        /\ call' = [op |-> "_extract_currency_value", text |-> text]
        /\ ret' = extract_currency_value(text)
    /\ prev' = call
    /\ UNCHANGED <<companies, bcompanies, index_file, pages>>
    /\ UNCHANGED extractor_vars
    /\ UNCHANGED tool_vars

NextCurrency == CleanTextOptional \/ ExtractCurrencyValue

SpecCurrency == InitCurrency /\ [][NextCurrency]_vars

\* the argument of the call was None or the empty string
AbsentOrEmpty == call.text = PyNone \/ call.text = Str(<<>>)

\* C21: for absent (None) or empty input text _clean_text returns the empty
\* string and _extract_currency_value returns None; neither raises.
C21_AbsentOrEmptyInput ==
    /\ call.op = "_clean_text" /\ AbsentOrEmpty => ret = Return(<<>>)
    /\ call.op = "_extract_currency_value" /\ AbsentOrEmpty => ret = ReturnNone

\* _extract_currency_value was given None and returned None
C21_Witness ==
    /\ call.op = "_extract_currency_value"
    /\ call.text = PyNone
    /\ ret = ReturnNone

\* _clean_text was given None and returned the empty string
C21_WitnessCleanText ==
    /\ call.op = "_clean_text"
    /\ call.text = PyNone
    /\ ret = Return(<<>>)

\* C22: for non-empty text without a digit _extract_currency_value returns
\* a result carrying only raw, the normalised input (no value, no unit, no
\* currency marker); for text with a numeric literal, value is the float of
\* the literal without its thousands separators and unit is the unit that
\* follows the literal, without a trailing dot.
C22_CurrencyValue ==
    call.op = "_extract_currency_value" /\ call.text.kind = "str"
        /\ call.text.value # <<>> =>
        LET text == call.text.value
            digits == {k \in 1..Len(text) : text[k] \in DigitChars}
            from == CHOOSE k \in digits : \A j \in digits : k <= j
            literal == number_prefix(Drop(text, from - 1)).group
            behind == lstrip(Drop(text, from - 1 + Len(literal)))
        IN  IF digits = {} THEN ret = Return([raw |-> clean_text(text)])
            ELSE /\ ret.kind = "return"
                 /\ ret.value.raw = clean_text(text)
                 /\ ret.value.value
                        = Float(float(remove_char(ch.comma, literal)).value)
                 /\ ch.dot \notin {ret.value.unit[k] : k \in 1..Len(ret.value.unit)}
                 /\ StartsWith(ret.value.unit, behind)

\* the same for the texts that hold no comma before their first digit
C22_WhenDigitLeads ==
    call.op = "_extract_currency_value" /\ call.text.kind = "str"
        /\ (LET text == call.text.value
                lead == RunLen(text, {c \in 0..ch.q1 : c \notin DigitChars})
            IN  \A k \in 1..lead : text[k] # ch.comma)
        => C22_CurrencyValue

\* C26: the output of _clean_text holds no occurrence of the placeholder
\* token, also when removing one occurrence brings the pieces of another
\* together (nested or adjacent fragments); so _clean_text applied to its
\* own output returns it unchanged.
C26_NoPlaceholderLeft ==
    call.op = "_clean_text" =>
        /\ ~Contains(placeholder, ret.value)
        /\ clean_text(ret.value) = ret.value

(***************************************************************************)
(* XPathExtractor (extractor.py): a parsed file, queried with XPath        *)
(* expressions; the answers accumulate in self.results.                    *)
(***************************************************************************)
MaxLabels == 2         \* entries of the dict given to extract_multiple

\* what self.tree.xpath(expression) does: it raises XPathEvalError, or
\* returns a list of strings and element nodes, or returns a number
XPathEvalError == Raise("XPathEvalError")
TextNode(text) == [kind |-> "str", text |-> text]
Element(text) == [kind |-> "element", text |-> text]
Number == [kind |-> "number"]

\* the loop over the list xpath() returned: a string is stripped and kept,
\* an element node gives its stripped text_content(), kept unless empty
converted(elements) ==
    LET stripped == [k \in 1..Len(elements) |->
                        [kind |-> elements[k].kind,
                         text |-> strip(elements[k].text)]]
        kept == SelectSeq(stripped, LAMBDA e : e.kind = "str" \/ e.text # <<>>)
    IN  [k \in 1..Len(kept) |-> kept[k].text]

\* extract that stores an empty list under the key when the expression is
\* invalid
extract_storing_failure(self_tree, self_results, xpath, label) ==
    LET elements == self_tree.xpath[xpath]
        key == IF label = PyNone \/ label = Str("") THEN xpath ELSE label.value
    IN  IF self_tree.children = 0
        THEN [ret |-> <<>>, results |-> self_results]
        ELSE IF elements = XPathEvalError
        THEN [ret |-> <<>>, results |-> Put(self_results, key, <<>>)]
        ELSE IF elements = Number
        THEN [ret |-> <<>>, results |-> self_results]
        ELSE [ret |-> converted(elements.value),
              results |-> Put(self_results, key, converted(elements.value))]

\* XPathExtractor.extract: the list it returns and self.results after it.
\* `not self.tree` is true for a root element without children; iterating
\* over a number raises TypeError, which `except Exception` takes
extract(self_tree, self_results, xpath, label) ==
    LET elements == self_tree.xpath[xpath]
        key == IF label = PyNone \/ label = Str("") THEN xpath ELSE label.value
    IN  IF self_tree.children = 0
        THEN [ret |-> <<>>, results |-> self_results]
        ELSE IF elements = XPathEvalError \/ elements = Number
        THEN [ret |-> <<>>, results |-> self_results]
        ELSE [ret |-> converted(elements.value),
              results |-> Put(self_results, key, converted(elements.value))]

\* XPathExtractor.extract_multiple on the items of xpath_dict, in their
\* order: the dict it returns and self.results after it
RECURSIVE extract_multiple(_, _, _)
extract_multiple(self_tree, self_results, items) ==
    IF items = <<>> THEN [ret |-> EmptyDict, results |-> self_results]
    ELSE LET last == items[Len(items)]
             before == extract_multiple(self_tree, self_results,
                                        Take(items, Len(items) - 1))
             one == extract(self_tree, before.results, last.xpath,
                            Str(last.label))
         IN  [ret |-> Put(before.ret, last.label, one.ret),
              results |-> one.results]

\* the expressions of the model and the files they are asked of: a page
\* with a heading, a page whose heading is blank, and a file whose root
\* element has no children
XPaths == {"//h1", "//td/text()", "count(//td)", "//["}

Trees ==
    LET answers(h1) == [x \in XPaths |->
            CASE x = "//h1" -> Return(h1)
              [] x = "//td/text()" -> Return(<<TextNode(<<ch.sp, ch.n5>>),
                                               TextNode(<<ch.nl>>)>>)
              [] x = "count(//td)" -> Number
              [] OTHER -> XPathEvalError]
    IN  {[children |-> 2,
          xpath |-> answers(<<Element(<<ch.a, ch.sp>>), Element(<<ch.sp>>)>>)],
         [children |-> 2, xpath |-> answers(<<Element(<<ch.nl>>)>>)],
         [children |-> 0, xpath |-> answers(<<>>)]}

Labels == {"title", "price"}
OptionalLabels == {PyNone, Str("")} \cup {Str(label) : label \in Labels}

\* the dicts for extract_multiple: up to MaxLabels items with distinct labels
XPathDicts ==
    {items \in SeqsUpTo([label : Labels, xpath : XPaths], MaxLabels) :
        \A j, k \in 1..Len(items) : items[j].label = items[k].label => j = k}

\* XPathExtractor(html_file) has loaded the file; nothing is extracted yet
InitXPath ==
    /\ companies = <<>>
    /\ bcompanies = <<>>
    /\ index_file = NoFile
    /\ pages = <<>>
    /\ call = [op |-> "__init__"]
    /\ prev = [op |-> "init"]
    /\ ret = ReturnNone
    /\ NoExtractor
    /\ tree \in Trees
    /\ xresults = EmptyDict
    /\ site = <<>>
    /\ log = <<>>
    /\ frame = <<>>

\* extractor.extract(xpath, label)
Extract ==
    /\ \E xpath \in XPaths, label \in OptionalLabels :
        /\ call' = [op |-> "extract", xpath |-> xpath, label |-> label]
        /\ \E done \in {extract(tree, xresults, xpath, label)} :
            /\ ret' = Return(done.ret)
            /\ xresults' = done.results
    /\ UNCHANGED <<companies, bcompanies, index_file, pages, prev>>
    /\ UNCHANGED extractor_vars
    /\ UNCHANGED <<tree, site, log, frame>>

\* extractor.extract_multiple(xpath_dict)
ExtractMultiple ==
    /\ \E xpath_dict \in XPathDicts :
        /\ call' = [op |-> "extract_multiple", xpath_dict |-> xpath_dict]
        /\ \E done \in {extract_multiple(tree, xresults, xpath_dict)} :
            /\ ret' = Return(done.ret)
            /\ xresults' = done.results
    /\ UNCHANGED <<companies, bcompanies, index_file, pages, prev>>
    /\ UNCHANGED extractor_vars
    /\ UNCHANGED <<tree, site, log, frame>>

NextXPath == Extract \/ ExtractMultiple

SpecXPath == InitXPath /\ [][NextXPath]_vars

\* the items of a dict whose expression the tree can evaluate
ValidItems(items) ==
    SelectSeq(items, LAMBDA item : tree.xpath[item.xpath] # XPathEvalError)

\* C23: an invalid XPath expression yields an empty result for that single
\* request, without raising, and leaves the accumulated results unchanged;
\* in extract_multiple an invalid expression for one label does not keep the
\* other labels of the batch from being extracted and stored: each of them
\* gets what extract alone returns for it, and self.results ends as if the
\* batch had held the other labels only.
C23_InvalidXPath ==
    [][/\ call'.op = "extract" /\ tree.xpath[call'.xpath] = XPathEvalError =>
            ret' = Return(<<>>) /\ xresults' = xresults
       /\ call'.op = "extract_multiple" =>
            LET items == call'.xpath_dict
            IN  /\ ret'.kind = "return"
                /\ DOMAIN ret'.value = {items[k].label : k \in 1..Len(items)}
                /\ \A k \in 1..Len(items) :
                      ret'.value[items[k].label] =
                          IF tree.xpath[items[k].xpath] = XPathEvalError
                          THEN <<>>
                          ELSE extract(tree, xresults, items[k].xpath,
                                       Str(items[k].label)).ret
                /\ xresults' = extract_multiple(tree, xresults,
                                                ValidItems(items)).results
      ]_vars

\* a batch whose first expression is invalid has stored the heading that
\* its second expression found
C23_Witness ==
    /\ call.op = "extract_multiple"
    /\ Len(call.xpath_dict) = 2
    /\ call.xpath_dict[1] = [label |-> "price", xpath |-> "//["]
    /\ call.xpath_dict[2] = [label |-> "title", xpath |-> "//h1"]
    /\ ret = Return(("price" :> <<>>) @@ ("title" :> << <<ch.a>> >>))
    /\ "title" \in DOMAIN xresults
    /\ xresults["title"] = << <<ch.a>> >>
    /\ "price" \notin DOMAIN xresults

(***************************************************************************)
(* IPOSearchAndExtract (search_ipo.py): the search engine, the site and    *)
(* the extractor put together.  `site` is what the site answers to a GET   *)
(* of each company URL; `log` is the sequence of requests sent,            *)
(* extractions run and files written; `frame` holds the position and the   *)
(* locals of interactive_search.                                           *)
(***************************************************************************)
MaxFetches == 1        \* requests sent to the site in one behaviour

\* response.text: the empty string, or markup that parses to a document
EmptyHtml == [empty |-> TRUE]
Html(doc) == [empty |-> FALSE, soup |-> doc]
Response(html) == [ok |-> TRUE, text |-> html]

Get(url) == [event |-> "get", url |-> url]
Extraction == [event |-> "extract_all"]
Write(filepath) == [event |-> "write", filepath |-> filepath]

\* the documents the pages of the model parse to, and extract_all of a new
\* IPODataExtractor on each, computed once
PageDocs == {FullDoc, Put(EmptyDoc, "subscription", TimesDots)}
ExtractTable == [doc \in PageDocs |-> extract_all(doc, EmptyDict)]

\* fetch_company_html: response.text, or None when the request or
\* raise_for_status() raised
fetch_company_html(pages_of, url) ==
    IF pages_of[url].ok THEN Return(pages_of[url].text) ELSE ReturnNone

\* get_company_details on a site: what it returns or raises, and the
\* request, the extraction and the file it caused, in their order
get_company_details(company, save_json, pages_of) ==
    IF "url" \notin DOMAIN company
    THEN [ret |-> Raise("KeyError"), events |-> <<>>]
    ELSE \* html_content = self.fetch_company_html(company['url'])
         LET html_content == fetch_company_html(pages_of, company["url"])
             sent == <<Get(company["url"])>>
         IN  IF html_content = ReturnNone \/ html_content.value.empty
             THEN [ret |-> ReturnNone, events |-> sent]
             ELSE \* extractor = IPODataExtractor(html_content);
                  \* data = extractor.extract_all()
                  CHOOSE done \in
                    {IF extracted.kind = "raise"
                     THEN [ret |-> extracted, events |-> sent \o <<Extraction>>]
                     ELSE IF ~save_json
                     THEN [ret |-> extracted, events |-> sent \o <<Extraction>>]
                     ELSE IF "slug" \notin DOMAIN company
                     THEN [ret |-> Raise("KeyError"),
                           events |-> sent \o <<Extraction>>]
                     ELSE [ret |-> extracted,
                           events |-> sent \o <<Extraction,
                               Write(<<company["slug"], "_data.json">>)>>]
                     : extracted \in {ExtractTable[html_content.value.soup]}}
                    : TRUE

\* search_and_extract taking the last result as the best match
search_and_extract_last(cs, company_name, save_json, pages_of) ==
    LET results == search(cs, company_name, 5, default_min_score)
    IN  IF results.kind = "raise" THEN [ret |-> results, events |-> <<>>]
        ELSE IF results.value = <<>> THEN [ret |-> ReturnNone, events |-> <<>>]
        ELSE get_company_details(results.value[Len(results.value)],
                                 save_json, pages_of)

\* IPOSearchAndExtract.search_and_extract
search_and_extract(cs, company_name, save_json, pages_of) ==
    LET results == search(cs, company_name, 5, default_min_score)
    IN  IF results.kind = "raise" THEN [ret |-> results, events |-> <<>>]
        ELSE IF results.value = <<>> THEN [ret |-> ReturnNone, events |-> <<>>]
        ELSE get_company_details(results.value[1], save_json, pages_of)

\* query.lower() in ['quit', 'exit', 'q']
is_quit(query) ==
    lower(query) \in {<<ch.q, ch.u, ch.i, ch.t>>, <<ch.e, ch.x, ch.i, ch.t>>,
                      <<ch.q>>}

\* int(selection) for a stripped string: an optional sign, then digits
int_of(s) ==
    LET signed == s # <<>> /\ Head(s) \in {ch.plus, ch.minus}
        body == IF signed THEN Tail(s) ELSE s
    IN  IF body = <<>> \/ \E k \in 1..Len(body) : body[k] \notin DigitChars
        THEN Raise("ValueError")
        ELSE Return(IF signed /\ Head(s) = ch.minus
                    THEN 0 - digits_value(body) ELSE digits_value(body))

\* the selection read with the number taken as the index itself
selected_index_from_zero(results, selection) ==
    LET number == int_of(selection)
    IN  IF selection = <<>> \/ number.kind = "raise" THEN ReturnNone
        ELSE IF 0 <= number.value /\ number.value < Len(results)
        THEN Return(number.value) ELSE ReturnNone

\* index = int(selection) - 1, kept `if 0 <= index < len(results)`; None
\* for an empty selection, a ValueError and an invalid selection
selected_index(results, selection) ==
    LET number == int_of(selection)
    IN  IF selection = <<>> \/ number.kind = "raise" THEN ReturnNone
        ELSE IF 0 <= number.value - 1 /\ number.value - 1 < Len(results)
        THEN Return(number.value - 1) ELSE ReturnNone

\* the requests in a log
Fetches(events) == {k \in 1..Len(events) : events[k].event = "get"}

\* the lines typed at the prompts
QueryLines ==
    {<<>>, <<ch.sp>>, <<ch.a>>, <<ch.sp, ch.a, ch.sp>>, <<ch.A, ch.B>>, Sudeep,
     <<ch.q, ch.u, ch.i, ch.t>>, <<ch.E, ch.X, ch.I, ch.T, ch.sp>>, <<ch.q>>}
SelectionLines ==
    {<<>>, <<ch.sp>>, <<ch.n0>>, <<ch.n1>>, <<ch.sp, ch.n2>>, <<ch.n3>>,
     <<ch.n4>>, <<ch.minus, ch.n1>>, <<ch.a>>, <<ch.n1, ch.dot, ch.n0>>}
Answers == {<<>>, <<ch.y>>, <<ch.sp, ch.Y>>, <<ch.n>>}

\* two sites: on one the request for company 1 fails, the page of company
\* 2 holds a figure that extract_all cannot convert and the page of company
\* 3 has every labelled place; on the other company 1 has the full page,
\* company 2 an empty body and the request for company 3 fails
Urls == {c["url"] : c \in {u \in Universe : "url" \in DOMAIN u}}
Sites ==
    {[url \in Urls |->
        CASE url[4] = "1" -> FetchFailed
          [] url[4] = "2" ->
                Response(Html(Put(EmptyDoc, "subscription", TimesDots)))
          [] OTHER -> Response(Html(FullDoc))],
     [url \in Urls |->
        CASE url[4] = "1" -> Response(Html(FullDoc))
          [] url[4] = "2" -> Response(EmptyHtml)
          [] OTHER -> FetchFailed]}

\* IPOSearchAndExtract(): the engine has loaded the index file
InitTool ==
    /\ index_file \in EngineFiles
    /\ companies = engine_init(index_file)
    /\ bcompanies = <<>>
    /\ pages = <<>>
    /\ call = [op |-> "__init__"]
    /\ prev = [op |-> "init"]
    /\ ret = ReturnNone
    /\ NoExtractor
    /\ tree = <<>>
    /\ xresults = <<>>
    /\ site \in Sites
    /\ log = <<>>
    /\ frame = [pc |-> "idle"]

\* tool.search_and_extract(company_name, save_json)
SearchAndExtract ==
    /\ frame.pc = "idle"
    /\ Cardinality(Fetches(log)) < MaxFetches
    /\ \E company_name \in Queries, save_json \in BOOLEAN :
        /\ call' = [op |-> "search_and_extract", company_name |-> company_name,
                    save_json |-> save_json]
        /\ \E done \in {search_and_extract(companies, company_name, save_json,
                                           site)} :
            /\ ret' = done.ret
            /\ log' = log \o done.events
    /\ UNCHANGED <<companies, bcompanies, index_file, pages, prev>>
    /\ UNCHANGED extractor_vars
    /\ UNCHANGED <<tree, xresults, site, frame>>

\* tool.interactive_search() up to its first prompt: it returns at once
\* when the engine has no companies
InteractiveSearch ==
    /\ frame.pc = "idle"
    /\ call' = [op |-> "interactive_search"]
    /\ ret' = ReturnNone
    /\ frame' = IF companies = <<>> THEN [pc |-> "idle"] ELSE [pc |-> "query"]
    /\ UNCHANGED <<companies, bcompanies, index_file, pages, prev>>
    /\ UNCHANGED extractor_vars
    /\ UNCHANGED <<tree, xresults, site, log>>

\* a line typed at "Enter company name to search": quit, or search and
\* display; a KeyError of the display loop is taken by `except Exception`
EnterQuery ==
    /\ frame.pc = "query"
    /\ \E line \in QueryLines :
        /\ call' = [op |-> "input", prompt |-> "query", line |-> line]
        /\ LET query == strip(line)
               results == search(companies, query, 10, default_min_score)
           IN  frame' =
                 IF is_quit(query) THEN [pc |-> "idle"]
                 ELSE IF query = <<>> THEN [pc |-> "query"]
                 ELSE IF results.kind = "raise" \/ results.value = <<>>
                 THEN [pc |-> "query"]
                 ELSE IF \E k \in 1..Len(results.value) :
                            "id" \notin DOMAIN results.value[k]
                 THEN [pc |-> "query"]
                 ELSE [pc |-> "selection", results |-> results.value]
    /\ UNCHANGED <<companies, bcompanies, index_file, pages, prev, ret>>
    /\ UNCHANGED extractor_vars
    /\ UNCHANGED <<tree, xresults, site, log>>

\* a line typed at "Select a company (number)"
EnterSelection ==
    /\ frame.pc = "selection"
    /\ \E line \in SelectionLines :
        /\ call' = [op |-> "input", prompt |-> "selection", line |-> line]
        /\ LET index == selected_index(frame.results, strip(line))
           IN  frame' =
                 IF index = ReturnNone THEN [pc |-> "query"]
                 ELSE [pc |-> "save", results |-> frame.results,
                       index |-> index.value,
                       selected |-> frame.results[index.value + 1]]
    /\ UNCHANGED <<companies, bcompanies, index_file, pages, prev, ret>>
    /\ UNCHANGED extractor_vars
    /\ UNCHANGED <<tree, xresults, site, log>>

\* a line typed at "Save to JSON file? (y/n)", and get_company_details on
\* the selected company; what it raises is taken by `except Exception`
EnterSave ==
    /\ frame.pc = "save"
    /\ Cardinality(Fetches(log)) < MaxFetches
    /\ \E line \in Answers :
        /\ call' = [op |-> "input", prompt |-> "save", line |-> line]
        /\ \E done \in {get_company_details(frame.selected,
                            lower(strip(line)) = <<ch.y>>, site)} :
            /\ log' = log \o done.events
            /\ frame' = IF done.ret.kind = "raise" THEN [pc |-> "query"]
                        ELSE [pc |-> "cont"]
    /\ UNCHANGED <<companies, bcompanies, index_file, pages, prev, ret>>
    /\ UNCHANGED extractor_vars
    /\ UNCHANGED <<tree, xresults, site>>

\* a line typed at "Search for another company? (y/n)"
EnterContinue ==
    /\ frame.pc = "cont"
    /\ \E line \in Answers :
        /\ call' = [op |-> "input", prompt |-> "cont", line |-> line]
        /\ frame' = IF lower(strip(line)) = <<ch.y>> THEN [pc |-> "query"]
                    ELSE [pc |-> "idle"]
    /\ UNCHANGED <<companies, bcompanies, index_file, pages, prev, ret>>
    /\ UNCHANGED extractor_vars
    /\ UNCHANGED <<tree, xresults, site, log>>

\* Ctrl-C at a prompt: `except KeyboardInterrupt` ends the loop
Interrupt ==
    /\ frame.pc \in {"query", "selection", "save", "cont"}
    /\ call' = [op |-> "interrupt", prompt |-> frame.pc]
    /\ frame' = [pc |-> "idle"]
    /\ UNCHANGED <<companies, bcompanies, index_file, pages, prev, ret>>
    /\ UNCHANGED extractor_vars
    /\ UNCHANGED <<tree, xresults, site, log>>

NextTool ==
    \/ SearchAndExtract
    \/ InteractiveSearch
    \/ EnterQuery
    \/ EnterSelection
    \/ EnterSave
    \/ EnterContinue
    \/ Interrupt

SpecTool == InitTool /\ [][NextTool]_vars

(***************************************************************************)
(* Properties of IPOSearchAndExtract.                                      *)
(***************************************************************************)
\* what a step adds to the log
NewEvents == SubSeq(log', Len(log) + 1, Len(log'))

\* C27: in interactive_search a company page is fetched and extracted only
\* in a loop iteration where the search returned a non-empty list and the
\* user entered a number between 1 and the number of results, and the
\* company fetched is the one displayed at that number; an empty query, an
\* empty result, an empty, non-numeric or out-of-range selection all go back
\* to the query prompt without any fetch; quit, exit or q at the query
\* prompt ends the loop.
C27_InteractiveSearch ==
    [][/\ frame.pc # "idle" /\ log' # log =>
            /\ call'.op = "input" /\ call'.prompt = "save"
            /\ frame.results # <<>>
            /\ frame.index + 1 \in 1..Len(frame.results)
            /\ NewEvents[1] = Get(frame.results[frame.index + 1]["url"])
            /\ Fetches(NewEvents) = {1}
       /\ call'.op = "input" /\ call'.prompt = "selection" =>
            LET results == frame.results
                number == int_of(strip(call'.line))
            IN  /\ log' = log
                /\ IF number.kind = "return" /\ number.value \in 1..Len(results)
                   THEN /\ frame'.pc = "save"
                        /\ frame'.results = results
                        /\ frame'.index = number.value - 1
                        /\ frame'.selected = results[number.value]
                   ELSE frame'.pc = "query"
       /\ call'.op = "input" /\ call'.prompt = "query" =>
            LET query == strip(call'.line)
                quit == lower(query) \in {<<ch.q, ch.u, ch.i, ch.t>>,
                                          <<ch.e, ch.x, ch.i, ch.t>>, <<ch.q>>}
                results == search(companies, query, 10, default_min_score)
            IN  /\ log' = log
                /\ quit => frame'.pc = "idle"
                /\ query = <<>> => frame'.pc = "query"
                /\ ~quit /\ results = Return(<<>>) => frame'.pc = "query"
                /\ frame'.pc \in {"idle", "query", "selection"}
                /\ frame'.pc = "selection" =>
                      /\ ~quit /\ results.kind = "return" /\ results.value # <<>>
                      /\ frame'.results = results.value
      ]_vars

\* the loop has fetched the page of the selected company, extracted it and
\* written the file, and asks whether to go on
C27_Witness ==
    /\ call.op = "input"
    /\ call.prompt = "save"
    /\ frame.pc = "cont"
    /\ Len(log) >= 3
    /\ log[Len(log) - 2].event = "get"
    /\ log[Len(log) - 1] = Extraction
    /\ log[Len(log)].event = "write"

\* C28: search_and_extract fetches the details of the first result of the
\* search, which has the highest score; when the search yields no result no
\* fetch is attempted and None is returned; when the page fetch fails
\* get_company_details returns None, runs no extraction and writes no JSON
\* file, even if save_json is true.
C28_SearchAndExtract ==
    [][call'.op = "search_and_extract" =>
        LET results == search(companies, call'.company_name, 5,
                              default_min_score)
        IN  /\ \A k \in Fetches(NewEvents) :
                  /\ results.kind = "return" /\ results.value # <<>>
                  /\ NewEvents[k] = Get(results.value[1]["url"])
                  /\ \A j \in 1..Len(results.value) :
                        Geq(results.value[1]["match_score"],
                            results.value[j]["match_score"])
            /\ results = Return(<<>>) => NewEvents = <<>> /\ ret' = ReturnNone
            /\ /\ results.kind = "return" /\ results.value # <<>>
               /\ "url" \in DOMAIN results.value[1]
               /\ site[results.value[1]["url"]] = FetchFailed
               => /\ ret' = ReturnNone
                  /\ NewEvents = <<Get(results.value[1]["url"])>>
      ]_vars

\* search_and_extract with save_json true has returned None after a request
\* that failed: the request is the last entry of the log
C28_Witness ==
    /\ call.op = "search_and_extract"
    /\ call.save_json
    /\ ret = ReturnNone
    /\ log # <<>>
    /\ log[Len(log)].event = "get"
    /\ site[log[Len(log)].url] = FetchFailed

\* search_and_extract has found nothing and sent no request
C28_WitnessNoResult ==
    /\ call.op = "search_and_extract"
    /\ call.company_name # <<>>
    /\ companies # <<>>
    /\ ret = ReturnNone
    /\ log = <<>>

====
